---------------------------- MODULE Spec2Model ----------------------------
(***************************************************************************)
(* Model of the outline extractor (sourceradar/outline).                   *)
(*                                                                         *)
(* A text is a sequence of symbols: a maximal run of letters is one        *)
(* symbol, every other character (blank, tab, newline, punctuation, digit) *)
(* is a symbol of its own.  A syntax tree is a nested record; a node is    *)
(* referred to by the tree's root and the path of child indices that leads *)
(* to it, so that Parent and PrevNamedSibling are what the parser library  *)
(* gives.                                                                  *)
(***************************************************************************)
EXTENDS Integers, Sequences, FiniteSets, TLC

VARIABLES
    language,   \* the language tag of the call
    content,    \* the source text, as the forest of its items
    root,       \* the syntax tree the parser builds for the content
    call,       \* the entry point that was called ("none" before the call)
    target,     \* the node the entry point was handed, as its path from the root
    result,     \* the returned outline text
    err,        \* the returned error ("nil" when there is none)
    pc,         \* "ready" before the call, "done" after it
    args,       \* the file arguments of the command line, each a path
    disk,         \* what the file system holds at the path of the first argument
    override,   \* the value of the --language flag ("" when it is not given)
    tag,        \* the tag ExtractOutline was called with ("none": it was not called)
    consulted,  \* whether DetectLanguage was called on the path
    isError,    \* the IsError flag of a tool result
    history,    \* the calls of a session that have returned, in order
    procs,      \* the calls that run concurrently, by goroutine
    builders,   \* the output builders of the concurrent calls, by owner
    open,       \* how many parsers and how many syntax trees are open
    argv        \* the arguments of the process, after the program name

\* the state one call on one source text has no part in
aside == <<args, disk, override, tag, consulted, isError, history, procs, builders, argv>>

vars == <<language, content, root, call, target, result, err, pc, aside, open>>

NoneOpen == [parsers |-> 0, trees |-> 0]

\* no command line, no session, no concurrent call
Idle ==
    /\ args = <<>>
    /\ disk = "file"
    /\ override = ""
    /\ tag = "none"
    /\ consulted = FALSE
    /\ isError = FALSE
    /\ history = <<>>
    /\ procs = <<>>
    /\ builders = <<>>
    /\ open = NoneOpen
    /\ argv = <<>>

----------------------------------------------------------------------------
(* Bounds of the model. *)

MaxTop == 3       \* items of a source text, members of bodies included
MaxDoc == 4       \* lines of a Go source text with comments and blank lines
MaxPy == 4        \* items of a Python source text, methods included
MaxFile == 2      \* items of the source text of a file given on the command line
MaxCalls == 3     \* calls of ExtractOutline in one session
MaxConc == 2      \* items of the source text of a concurrent call
MaxSig == 3       \* symbols of the type and of the declarator of a signature
MaxBody == 2      \* items of a source text whose bodies hold a statement
MaxMembers == 3   \* members of a class whose members differ in name and modifiers

----------------------------------------------------------------------------
(* strings *)

IsSpace(c) == c \in {" ", "\t", "\n", "\r"}

RECURSIVE TrimLeft(_)
TrimLeft(s) ==
    IF s # <<>> /\ IsSpace(Head(s)) THEN TrimLeft(Tail(s)) ELSE s

RECURSIVE TrimRight(_)
TrimRight(s) ==
    IF s # <<>> /\ IsSpace(s[Len(s)]) THEN TrimRight(SubSeq(s, 1, Len(s) - 1)) ELSE s

TrimSpace(s) == TrimRight(TrimLeft(s))

HasPrefix(s, p) == Len(s) >= Len(p) /\ SubSeq(s, 1, Len(p)) = p

HasSuffix(s, p) == Len(s) >= Len(p) /\ SubSeq(s, Len(s) - Len(p) + 1, Len(s)) = p

Contains(s, sub) ==
    \E i \in 1..(Len(s) - Len(sub) + 1) : SubSeq(s, i, i + Len(sub) - 1) = sub

\* strings.Split(s, "\n"): the pieces between newlines, one piece for "".
RECURSIVE SplitLines(_)
SplitLines(s) ==
    IF \A i \in 1..Len(s) : s[i] # "\n"
    THEN <<s>>
    ELSE LET i == CHOOSE k \in 1..Len(s) :
                      s[k] = "\n" /\ \A j \in 1..(k - 1) : s[j] # "\n"
         IN <<SubSeq(s, 1, i - 1)>> \o SplitLines(SubSeq(s, i + 1, Len(s)))

RECURSIVE Repeat(_, _)
Repeat(s, n) == IF n <= 0 THEN <<>> ELSE s \o Repeat(s, n - 1)

RECURSIVE Join(_, _)
Join(parts, sep) ==
    IF parts = <<>> THEN <<>>
    ELSE IF Len(parts) = 1 THEN parts[1]
    ELSE parts[1] \o sep \o Join(Tail(parts), sep)

RECURSIVE Flatten(_)
Flatten(parts) == IF parts = <<>> THEN <<>> ELSE Head(parts) \o Flatten(Tail(parts))

DigitChar(d) ==
    CASE d = 0 -> "0" [] d = 1 -> "1" [] d = 2 -> "2" [] d = 3 -> "3" [] d = 4 -> "4"
      [] d = 5 -> "5" [] d = 6 -> "6" [] d = 7 -> "7" [] d = 8 -> "8" [] d = 9 -> "9"

\* fmt's %d of an unsigned number
RECURSIVE FormatUint(_)
FormatUint(n) ==
    IF n < 10 THEN <<DigitChar(n)>> ELSE FormatUint(n \div 10) \o <<DigitChar(n % 10)>>

----------------------------------------------------------------------------
(* syntax tree nodes *)

NoFields == <<>>

\* a named node
Mk(kind, row, text, fld, kids) ==
    [kind |-> kind, named |-> TRUE, row |-> row, text |-> text, fld |-> fld, kids |-> kids]

\* an anonymous node: a keyword or a punctuation mark
Anon(kind, row) ==
    [kind |-> kind, named |-> FALSE, row |-> row, text |-> <<kind>>, fld |-> NoFields,
     kids |-> <<>>]

Leaf(kind, row, text) == Mk(kind, row, text, NoFields, <<>>)

RECURSIVE NodeAt(_, _)
NodeAt(tree, path) ==
    IF path = <<>> THEN tree ELSE NodeAt(tree.kids[Head(path)], Tail(path))

Front(path) == SubSeq(path, 1, Len(path) - 1)

Last(path) == path[Len(path)]

Kind(tree, path) == NodeAt(tree, path).kind

HasParent(path) == path # <<>>

\* indices, among all children, of the named children
NamedIdx(node) ==
    LET all == node.kids
        F[i \in 0..Len(all)] ==
            IF i = 0 THEN <<>>
            ELSE IF all[i].named THEN F[i - 1] \o <<i>> ELSE F[i - 1]
    IN F[Len(all)]

NamedChildCount(tree, path) == Len(NamedIdx(NodeAt(tree, path)))

\* the path of the i-th named child, i counted from 0 as in the library
NamedChild(tree, path, i) == path \o <<NamedIdx(NodeAt(tree, path))[i + 1]>>

NamedChildren(tree, path) ==
    LET idx == NamedIdx(NodeAt(tree, path))
    IN [i \in 1..Len(idx) |-> path \o <<idx[i]>>]

ChildCount(tree, path) == Len(NodeAt(tree, path).kids)

HasField(tree, path, name) == name \in DOMAIN NodeAt(tree, path).fld

ChildByFieldName(tree, path, name) == path \o <<NodeAt(tree, path).fld[name]>>

\* the previous named sibling as a sequence of at most one path
PrevNamedSibling(tree, path) ==
    IF path = <<>> THEN <<>>
    ELSE LET sibs == NodeAt(tree, Front(path)).kids
             before == {j \in 1..(Last(path) - 1) : sibs[j].named}
         IN IF before = {} THEN <<>>
            ELSE <<Front(path) \o <<CHOOSE j \in before : \A k \in before : k <= j>>>>

----------------------------------------------------------------------------
(* util.go *)

getNodeText(tree, path) == NodeAt(tree, path).text

\* the start row of a node as the parser counts it, from zero
getNodeRow(tree, path) == NodeAt(tree, path).row

getNodeLineNumber(tree, path) == NodeAt(tree, path).row + 1

IsCommentKind(kind) ==
    kind \in {"comment", "line_comment", "block_comment", "multiline_comment"}

\* a walk that adds each earlier comment below the ones already collected
RECURSIVE docLoopAppending(_, _, _)
docLoopAppending(tree, current, comment) ==
    IF current = <<>> THEN comment
    ELSE IF IsCommentKind(Kind(tree, current[1]))
    THEN LET text == TrimSpace(getNodeText(tree, current[1]))
         IN docLoopAppending(tree, PrevNamedSibling(tree, current[1]),
                             IF comment = <<>> THEN text ELSE comment \o <<"\n">> \o text)
    ELSE comment

RECURSIVE docLoop(_, _, _)
docLoop(tree, current, comment) ==
    IF current = <<>> THEN comment
    ELSE IF IsCommentKind(Kind(tree, current[1]))
    THEN LET text == TrimSpace(getNodeText(tree, current[1]))
         IN docLoop(tree, PrevNamedSibling(tree, current[1]),
                    IF comment = <<>> THEN text ELSE text \o <<"\n">> \o comment)
    ELSE comment

findDocComment(tree, path) ==
    IF ~HasParent(path) THEN <<>>
    ELSE docLoop(tree, PrevNamedSibling(tree, path), <<>>)

----------------------------------------------------------------------------
(* go.go *)

\* the documentation block of the Go, Java, JavaScript and TypeScript adapters:
\* every line of the comment behind "// "
RECURSIVE docLines(_, _)
docLines(indent, lines) ==
    IF lines = <<>> THEN <<>>
    ELSE indent \o <<"/", "/", " ">> \o TrimSpace(Head(lines)) \o <<"\n">>
         \o docLines(indent, Tail(lines))

writeDoc(indent, doc) ==
    IF doc # <<>> THEN docLines(indent, SplitLines(doc)) ELSE <<>>

\* the text of an optional field, behind `lead`, or nothing
optField(tree, path, name, lead) ==
    IF HasField(tree, path, name)
    THEN lead \o getNodeText(tree, ChildByFieldName(tree, path, name))
    ELSE <<>>

processPackage(tree, path, indent) ==
    LET named == NamedChildren(tree, path)
        ids == {i \in 1..Len(named) : Kind(tree, named[i]) = "package_identifier"}
    IN IF ids = {} THEN <<>>
       ELSE LET first == CHOOSE i \in ids : \A j \in ids : i <= j
            IN indent \o <<"package", " ">> \o getNodeText(tree, named[first])
               \o <<"\n", "\n">>

processImport(tree, path, indent) ==
    LET importText == getNodeText(tree, path)
    IN indent \o importText \o <<"\n">>
       \o (IF Contains(importText, <<"(">>) THEN <<"\n">> ELSE <<>>)

\* one const_spec or var_spec of a block, or nothing when it is no named spec
constVarItem(tree, child, indent) ==
    IF Kind(tree, child) \in {"const_spec", "var_spec"} /\ HasField(tree, child, "name")
    THEN indent \o <<"\t">> \o getNodeText(tree, ChildByFieldName(tree, child, "name"))
         \o optField(tree, child, "type", <<" ">>)
         \o optField(tree, child, "value", <<" ", "=", " ">>) \o <<"\n">>
    ELSE <<>>

processConstAndVar(tree, path, indent) ==
    LET declType == IF Kind(tree, path) = "const_declaration" THEN <<"const">> ELSE <<"var">>
        named == NamedChildren(tree, path)
        items == Flatten([i \in 1..Len(named) |-> constVarItem(tree, named[i], indent)])
        hasItems == items # <<>>
    IN writeDoc(indent, findDocComment(tree, path))
       \o indent \o declType \o <<" ", "(", "\n">>
       \o items
       \o (IF hasItems THEN indent \o <<")", "\n", "\n">> ELSE <<>>)

interfaceMethod(tree, methodNode, indent) ==
    IF Kind(tree, methodNode) # "method_spec" \/ ~HasField(tree, methodNode, "name")
    THEN <<>>
    ELSE indent \o <<"\t">> \o getNodeText(tree, ChildByFieldName(tree, methodNode, "name"))
         \o optField(tree, methodNode, "parameters", <<>>)
         \o optField(tree, methodNode, "result", <<" ">>) \o <<"\n">>

processInterface(tree, indent, name, typeNode, declNode) ==
    indent \o <<"type", " ">> \o name
    \o <<" ", "interface", " ", "{", " ", "/", "/", " ", "line", " ">>
    \o FormatUint(getNodeLineNumber(tree, declNode)) \o <<"\n">>
    \o (IF NamedChildCount(tree, typeNode) = 0 THEN <<>>
        ELSE LET methodsNode == NamedChild(tree, typeNode, 0)
             IN IF Kind(tree, methodsNode) # "method_spec_list" THEN <<>>
                ELSE LET ms == NamedChildren(tree, methodsNode)
                     IN Flatten([i \in 1..Len(ms) |-> interfaceMethod(tree, ms[i], indent)]))

structField(tree, fieldNode, indent) ==
    IF Kind(tree, fieldNode) # "field_declaration" \/ ~HasField(tree, fieldNode, "type")
    THEN <<>>
    ELSE IF HasField(tree, fieldNode, "name")
    THEN indent \o <<"\t">> \o getNodeText(tree, ChildByFieldName(tree, fieldNode, "name"))
         \o <<" ">> \o getNodeText(tree, ChildByFieldName(tree, fieldNode, "type")) \o <<"\n">>
    ELSE indent \o <<"\t">> \o getNodeText(tree, ChildByFieldName(tree, fieldNode, "type"))
         \o <<"\n">>

processStruct(tree, indent, name, typeNode, declNode) ==
    indent \o <<"type", " ">> \o name
    \o <<" ", "struct", " ", "{", " ", "/", "/", " ", "line", " ">>
    \o FormatUint(getNodeLineNumber(tree, declNode)) \o <<"\n">>
    \o (IF NamedChildCount(tree, typeNode) = 0 THEN <<>>
        ELSE LET fieldsNode == NamedChild(tree, typeNode, 0)
             IN IF Kind(tree, fieldsNode) # "field_declaration_list" THEN <<>>
                ELSE LET fs == NamedChildren(tree, fieldsNode)
                     IN Flatten([i \in 1..Len(fs) |-> structField(tree, fs[i], indent)]))
    \o indent \o <<"}", "\n", "\n">>

processType(tree, path, indent) ==
    IF ChildCount(tree, path) < 2 \/ Kind(tree, path \o <<2>>) # "type_spec" THEN <<>>
    ELSE LET specNode == path \o <<2>>
         IN IF ~HasField(tree, specNode, "name") THEN <<>>
            ELSE LET name == getNodeText(tree, ChildByFieldName(tree, specNode, "name"))
                     doc == writeDoc(indent, findDocComment(tree, path))
                 IN IF ~HasField(tree, specNode, "type") THEN doc
                    ELSE LET typeNode == ChildByFieldName(tree, specNode, "type")
                         IN doc \o
                            (CASE Kind(tree, typeNode) = "struct_type" ->
                                    processStruct(tree, indent, name, typeNode, path)
                               [] Kind(tree, typeNode) = "interface_type" ->
                                    processInterface(tree, indent, name, typeNode, path)
                                    \o indent \o <<"}", "\n", "\n">>
                               [] OTHER ->
                                    indent \o <<"type", " ">> \o name \o <<" ">>
                                    \o getNodeText(tree, typeNode)
                                    \o <<" ", "/", "/", " ", "line", " ">>
                                    \o FormatUint(getNodeLineNumber(tree, path))
                                    \o <<"\n", "\n">>)

processMethod(tree, path, indent) ==
    IF ~HasField(tree, path, "name") THEN <<>>
    ELSE writeDoc(indent, findDocComment(tree, path))
         \o indent \o <<"func", " ">> \o optField(tree, path, "receiver", <<>>) \o <<" ">>
         \o getNodeText(tree, ChildByFieldName(tree, path, "name"))
         \o optField(tree, path, "parameters", <<>>)
         \o optField(tree, path, "result", <<" ">>)
         \o <<" ", "{", " ", "/", "/", ".", ".", ".", " ", "}", " ", "/", "/", " ", "line", " ">>
         \o FormatUint(getNodeLineNumber(tree, path)) \o <<"\n", "\n">>

processFunction(tree, path, indent) ==
    IF ~HasField(tree, path, "name") THEN <<>>
    ELSE writeDoc(indent, findDocComment(tree, path))
         \o indent \o <<"func", " ">>
         \o getNodeText(tree, ChildByFieldName(tree, path, "name"))
         \o optField(tree, path, "parameters", <<>>)
         \o optField(tree, path, "result", <<" ">>)
         \o <<" ", "{", " ", "/", "/", ".", ".", ".", " ", "}", " ", "/", "/", " ", "line", " ">>
         \o FormatUint(getNodeLineNumber(tree, path)) \o <<"\n", "\n">>

RECURSIVE processNode(_, _, _)
processNode(tree, path, indentLevel) ==
    LET indent == Repeat(<<"\t">>, indentLevel)
        kind == Kind(tree, path)
    IN CASE kind = "source_file" ->
              LET named == NamedChildren(tree, path)
              IN Flatten([i \in 1..Len(named) |-> processNode(tree, named[i], indentLevel)])
         [] kind = "package_clause" -> processPackage(tree, path, indent)
         [] kind = "import_declaration" -> processImport(tree, path, indent)
         [] kind = "function_declaration" -> processFunction(tree, path, indent)
         [] kind = "method_declaration" -> processMethod(tree, path, indent)
         [] kind = "type_declaration" -> processType(tree, path, indent)
         [] kind \in {"const_declaration", "var_declaration"} ->
              processConstAndVar(tree, path, indent)
         [] OTHER -> <<>>

\* an extraction that gives up on a source with a syntax error
ExtractGoOutlineOrNothing(tree) ==
    IF \E i \in 1..Len(tree.kids) : tree.kids[i].kind = "ERROR" THEN <<>>
    ELSE processNode(tree, <<>>, 0)

ExtractGoOutline(tree) == processNode(tree, <<>>, 0)


----------------------------------------------------------------------------
(* python.go *)

RECURSIVE TrimCutLeft(_, _)
TrimCutLeft(s, cutset) ==
    IF s # <<>> /\ Head(s) \in cutset THEN TrimCutLeft(Tail(s), cutset) ELSE s

RECURSIVE TrimCutRight(_, _)
TrimCutRight(s, cutset) ==
    IF s # <<>> /\ s[Len(s)] \in cutset
    THEN TrimCutRight(SubSeq(s, 1, Len(s) - 1), cutset)
    ELSE s

\* strings.Trim(s, cutset)
Trim(s, cutset) == TrimCutRight(TrimCutLeft(s, cutset), cutset)

\* the docstring of a function or class: the string that is the first
\* statement of its body, without its quotes, or nothing
pyDocstring(tree, path) ==
    IF ~HasField(tree, path, "body") THEN <<>>
    ELSE LET bodyNode == ChildByFieldName(tree, path, "body")
         IN IF NamedChildCount(tree, bodyNode) = 0 THEN <<>>
            ELSE LET firstChild == NamedChild(tree, bodyNode, 0)
                 IN IF Kind(tree, firstChild) = "expression_statement"
                       /\ NamedChildCount(tree, firstChild) > 0
                       /\ Kind(tree, NamedChild(tree, firstChild, 0)) = "string"
                    THEN Trim(getNodeText(tree, NamedChild(tree, firstChild, 0)), {"\"", "'"})
                    ELSE <<>>

\* a visibility test that lets every name through
pyEveryNamePublic(name) == TRUE

pyIsPublic(name) == ~HasPrefix(name, <<"_">>)

\* the two lines of a function or method: its header and the "..." body
pyDef(tree, path, indent) ==
    LET doc == pyDocstring(tree, path)
    IN indent \o <<"def", " ">> \o getNodeText(tree, ChildByFieldName(tree, path, "name"))
       \o optField(tree, path, "parameters", <<>>)
       \o optField(tree, path, "return_type", <<" ", "-", ">", " ">>)
       \o <<":", " ", "#", " ", "line", " ">> \o FormatUint(getNodeLineNumber(tree, path))
       \o (IF doc # <<>>
           THEN <<" ", "\"", "\"", "\"">> \o doc \o <<"\"", "\"", "\"">>
           ELSE <<>>)
       \o <<"\n">>
       \o indent \o <<" ", " ", " ", " ", ".", ".", ".", "\n", "\n">>

pyFunction(tree, path, indent) ==
    IF ~HasField(tree, path, "name") THEN <<>>
    ELSE IF ~pyIsPublic(getNodeText(tree, ChildByFieldName(tree, path, "name"))) THEN <<>>
    ELSE pyDef(tree, path, indent)

\* a member of a class body written whatever its name is
pyMethodOfAnyName(tree, child, indent) ==
    IF Kind(tree, child) # "function_definition" \/ ~HasField(tree, child, "name") THEN <<>>
    ELSE pyDef(tree, child, indent \o <<" ", " ", " ", " ">>)

\* a member of a class body: the lines of a method that is not private
pyMethod(tree, child, indent) ==
    IF Kind(tree, child) # "function_definition" \/ ~HasField(tree, child, "name") THEN <<>>
    ELSE IF HasPrefix(getNodeText(tree, ChildByFieldName(tree, child, "name")), <<"_">>)
    THEN <<>>
    ELSE pyDef(tree, child, indent \o <<" ", " ", " ", " ">>)

\* an end of class that is `pass` whether or not a method was written
pyClassEndWithPass(indent, hasMethods) ==
    indent \o <<" ", " ", " ", " ", "pass", "\n", "\n">>

\* the end of a class: `pass` when no method was written
pyClassEnd(indent, hasMethods) ==
    IF ~hasMethods
    THEN indent \o <<" ", " ", " ", " ", "pass", "\n", "\n">>
    ELSE <<"\n">>

pyClass(tree, path, indent) ==
    IF ~HasField(tree, path, "name") THEN <<>>
    ELSE IF ~pyIsPublic(getNodeText(tree, ChildByFieldName(tree, path, "name"))) THEN <<>>
    ELSE LET doc == pyDocstring(tree, path)
             members == IF HasField(tree, path, "body")
                        THEN NamedChildren(tree, ChildByFieldName(tree, path, "body"))
                        ELSE <<>>
             methods == Flatten([i \in 1..Len(members) |-> pyMethod(tree, members[i], indent)])
             hasMethods == methods # <<>>
         IN indent \o <<"class", " ">>
            \o getNodeText(tree, ChildByFieldName(tree, path, "name"))
            \o optField(tree, path, "base_clause", <<>>)
            \o <<":", " ", "#", " ", "line", " ">>
            \o FormatUint(getNodeLineNumber(tree, path)) \o <<"\n">>
            \o (IF doc # <<>>
                THEN indent \o <<" ", " ", " ", " ", "\"", "\"", "\"">> \o doc
                     \o <<"\"", "\"", "\"", "\n">>
                ELSE <<>>)
            \o methods
            \o pyClassEnd(indent, hasMethods)

RECURSIVE processPythonNodeDescending(_, _, _)
\* a traversal that goes on into the children of every other node
processPythonNodeDescending(tree, path, indentLevel) ==
    LET indent == Repeat(<<" ">>, indentLevel * 4)
        kind == Kind(tree, path)
        named == NamedChildren(tree, path)
    IN CASE kind \in {"import_statement", "import_from_statement"} ->
              getNodeText(tree, path) \o <<"\n">>
         [] kind = "function_definition" -> pyFunction(tree, path, indent)
         [] kind = "class_definition" -> pyClass(tree, path, indent)
         [] OTHER -> Flatten([i \in 1..Len(named) |->
                                processPythonNodeDescending(tree, named[i], indentLevel)])

RECURSIVE processPythonNode(_, _, _)
processPythonNode(tree, path, indentLevel) ==
    LET indent == Repeat(<<" ">>, indentLevel * 4)
        kind == Kind(tree, path)
    IN CASE kind = "module" ->
              LET named == NamedChildren(tree, path)
              IN Flatten([i \in 1..Len(named) |->
                            processPythonNode(tree, named[i], indentLevel)])
         [] kind \in {"import_statement", "import_from_statement"} ->
              getNodeText(tree, path) \o <<"\n">>
         [] kind = "function_definition" -> pyFunction(tree, path, indent)
         [] kind = "class_definition" -> pyClass(tree, path, indent)
         [] OTHER -> <<>>

ExtractPythonOutline(tree) == processPythonNode(tree, <<>>, 0)

----------------------------------------------------------------------------
(* java.go *)

\* the paths of all children, anonymous ones included
Children(tree, path) == [i \in 1..ChildCount(tree, path) |-> path \o <<i>>]

\* the first child, among all children, of the given kind: at most one path
FirstChildOfKind(tree, path, kind) ==
    LET hits == {i \in 1..ChildCount(tree, path) : Kind(tree, path \o <<i>>) = kind}
    IN IF hits = {} THEN <<>>
       ELSE <<path \o <<CHOOSE i \in hits : \A j \in hits : i <= j>>>>

RECURSIVE nonBlankTexts(_, _)
nonBlankTexts(tree, paths) ==
    IF paths = <<>> THEN <<>>
    ELSE LET text == getNodeText(tree, Head(paths))
         IN (IF text # <<>> /\ text # <<" ">> THEN <<text>> ELSE <<>>)
            \o nonBlankTexts(tree, Tail(paths))

getJavaModifiers(tree, path) ==
    LET mods == FirstChildOfKind(tree, path, "modifiers")
    IN IF mods = <<>> THEN <<>> ELSE nonBlankTexts(tree, Children(tree, mods[1]))

javaModifierText(tree, path) ==
    LET modifiers == getJavaModifiers(tree, path)
    IN IF Len(modifiers) > 0 THEN Join(modifiers, <<" ">>) \o <<" ">> ELSE <<>>

\* the text of the first child of the given kind, behind a blank, or nothing
javaClause(tree, path, kind) ==
    LET hit == FirstChildOfKind(tree, path, kind)
    IN IF hit = <<>> THEN <<>> ELSE <<" ">> \o getNodeText(tree, hit[1])

processJavaPackage(tree, path, indent) ==
    indent \o getNodeText(tree, path) \o <<"\n", "\n">>

processJavaImport(tree, path, indent) ==
    indent \o getNodeText(tree, path) \o <<"\n">>

processJavaMethod(tree, path, indent) ==
    IF ~HasField(tree, path, "name") THEN <<>>
    ELSE writeDoc(indent, findDocComment(tree, path))
         \o indent \o javaModifierText(tree, path)
         \o (IF HasField(tree, path, "type")
             THEN getNodeText(tree, ChildByFieldName(tree, path, "type"))
             ELSE <<"void">>)
         \o <<" ">> \o getNodeText(tree, ChildByFieldName(tree, path, "name"))
         \o (IF HasField(tree, path, "parameters")
             THEN getNodeText(tree, ChildByFieldName(tree, path, "parameters"))
             ELSE <<"(", ")">>)
         \o javaClause(tree, path, "throws")
         \o <<" ", "{", " ", "/", "/", ".", ".", ".", " ", "}", " ", "/", "/", " ", "line", " ">>
         \o FormatUint(getNodeLineNumber(tree, path)) \o <<"\n", "\n">>

processJavaConstructor(tree, path, indent) ==
    IF ~HasField(tree, path, "name") THEN <<>>
    ELSE writeDoc(indent, findDocComment(tree, path))
         \o indent \o javaModifierText(tree, path)
         \o getNodeText(tree, ChildByFieldName(tree, path, "name"))
         \o (IF HasField(tree, path, "parameters")
             THEN getNodeText(tree, ChildByFieldName(tree, path, "parameters"))
             ELSE <<"(", ")">>)
         \o javaClause(tree, path, "throws")
         \o <<" ", "{", " ", "/", "/", ".", ".", ".", " ", "}", " ", "/", "/", " ", "line", " ">>
         \o FormatUint(getNodeLineNumber(tree, path)) \o <<"\n", "\n">>

javaDeclarator(tree, path, child, indent) ==
    IF Kind(tree, child) # "variable_declarator" \/ ~HasField(tree, child, "name") THEN <<>>
    ELSE indent \o javaModifierText(tree, path)
         \o getNodeText(tree, ChildByFieldName(tree, path, "type")) \o <<" ">>
         \o getNodeText(tree, ChildByFieldName(tree, child, "name"))
         \o optField(tree, child, "value", <<" ", "=", " ">>)
         \o <<";", " ", "/", "/", " ", "line", " ">>
         \o FormatUint(getNodeLineNumber(tree, path)) \o <<"\n">>

processJavaField(tree, path, indent) ==
    IF ~HasField(tree, path, "type") THEN <<>>
    ELSE LET named == NamedChildren(tree, path)
         IN Flatten([i \in 1..Len(named) |-> javaDeclarator(tree, path, named[i], indent)])

RECURSIVE processJavaNode(_, _, _)
RECURSIVE processJavaClass(_, _, _, _)
RECURSIVE processJavaInterface(_, _, _, _)
RECURSIVE processJavaEnum(_, _, _, _)

\* the members of a class or interface body, each at indentLevel
javaBody(tree, path, indentLevel) ==
    IF ~HasField(tree, path, "body") THEN <<>>
    ELSE LET named == NamedChildren(tree, ChildByFieldName(tree, path, "body"))
         IN Flatten([i \in 1..Len(named) |-> processJavaNode(tree, named[i], indentLevel)])

processJavaClass(tree, path, indent, indentLevel) ==
    IF ~HasField(tree, path, "name") THEN <<>>
    ELSE writeDoc(indent, findDocComment(tree, path))
         \o indent \o javaModifierText(tree, path) \o <<"class", " ">>
         \o getNodeText(tree, ChildByFieldName(tree, path, "name"))
         \o optField(tree, path, "superclass", <<" ">>)
         \o optField(tree, path, "interfaces", <<" ">>)
         \o <<" ", "{", " ", "/", "/", " ", "line", " ">>
         \o FormatUint(getNodeLineNumber(tree, path)) \o <<"\n">>
         \o javaBody(tree, path, indentLevel + 1)
         \o indent \o <<"}", "\n", "\n">>

processJavaInterface(tree, path, indent, indentLevel) ==
    IF ~HasField(tree, path, "name") THEN <<>>
    ELSE writeDoc(indent, findDocComment(tree, path))
         \o indent \o javaModifierText(tree, path) \o <<"interface", " ">>
         \o getNodeText(tree, ChildByFieldName(tree, path, "name"))
         \o javaClause(tree, path, "extends_interfaces")
         \o <<" ", "{", " ", "/", "/", " ", "line", " ">>
         \o FormatUint(getNodeLineNumber(tree, path)) \o <<"\n">>
         \o javaBody(tree, path, indentLevel + 1)
         \o indent \o <<"}", "\n", "\n">>

javaEnumMember(tree, child, indent, indentLevel) ==
    CASE Kind(tree, child) = "enum_constant" ->
           indent \o <<"\t">> \o getNodeText(tree, child) \o <<",", "\n">>
      [] Kind(tree, child) = "enum_body_declarations" ->
           LET subs == NamedChildren(tree, child)
           IN Flatten([j \in 1..Len(subs) |-> processJavaNode(tree, subs[j], indentLevel + 1)])
      [] OTHER -> processJavaNode(tree, child, indentLevel + 1)

processJavaEnum(tree, path, indent, indentLevel) ==
    IF ~HasField(tree, path, "name") THEN <<>>
    ELSE writeDoc(indent, findDocComment(tree, path))
         \o indent \o javaModifierText(tree, path) \o <<"enum", " ">>
         \o getNodeText(tree, ChildByFieldName(tree, path, "name"))
         \o <<" ", "{", " ", "/", "/", " ", "line", " ">>
         \o FormatUint(getNodeLineNumber(tree, path)) \o <<"\n">>
         \o (IF ~HasField(tree, path, "body") THEN <<>>
             ELSE LET named == NamedChildren(tree, ChildByFieldName(tree, path, "body"))
                  IN Flatten([i \in 1..Len(named) |->
                                javaEnumMember(tree, named[i], indent, indentLevel)]))
         \o indent \o <<"}", "\n", "\n">>

processJavaNode(tree, path, indentLevel) ==
    LET indent == Repeat(<<"\t">>, indentLevel)
        kind == Kind(tree, path)
    IN CASE kind = "program" ->
              LET named == NamedChildren(tree, path)
              IN Flatten([i \in 1..Len(named) |-> processJavaNode(tree, named[i], indentLevel)])
         [] kind = "package_declaration" -> processJavaPackage(tree, path, indent)
         [] kind = "import_declaration" -> processJavaImport(tree, path, indent)
         [] kind = "class_declaration" -> processJavaClass(tree, path, indent, indentLevel)
         [] kind = "interface_declaration" ->
              processJavaInterface(tree, path, indent, indentLevel)
         [] kind = "enum_declaration" -> processJavaEnum(tree, path, indent, indentLevel)
         [] kind = "method_declaration" -> processJavaMethod(tree, path, indent)
         [] kind = "constructor_declaration" -> processJavaConstructor(tree, path, indent)
         [] kind = "field_declaration" -> processJavaField(tree, path, indent)
         [] OTHER -> <<>>

ExtractJavaOutline(tree) == processJavaNode(tree, <<>>, 0)

----------------------------------------------------------------------------
(* swift.go *)

\* the texts of the nodes `paths` whose kind is one of `kinds`, in order
RECURSIVE TextsOfKind(_, _, _)
TextsOfKind(tree, paths, kinds) ==
    IF paths = <<>> THEN <<>>
    ELSE (IF Kind(tree, Head(paths)) \in kinds THEN <<getNodeText(tree, Head(paths))>> ELSE <<>>)
         \o TextsOfKind(tree, Tail(paths), kinds)

\* the paths among `paths` whose kind is one of `kinds`, in order
RECURSIVE OfKind(_, _, _)
OfKind(tree, paths, kinds) ==
    IF paths = <<>> THEN <<>>
    ELSE (IF Kind(tree, Head(paths)) \in kinds THEN <<Head(paths)>> ELSE <<>>)
         \o OfKind(tree, Tail(paths), kinds)

\* the named children, of the given kinds, of every node of `paths`
RECURSIVE GrandTexts(_, _, _)
GrandTexts(tree, paths, kinds) ==
    IF paths = <<>> THEN <<>>
    ELSE TextsOfKind(tree, NamedChildren(tree, Head(paths)), kinds)
         \o GrandTexts(tree, Tail(paths), kinds)

RECURSIVE GrandPaths(_, _, _)
GrandPaths(tree, paths, kinds) ==
    IF paths = <<>> THEN <<>>
    ELSE OfKind(tree, NamedChildren(tree, Head(paths)), kinds)
         \o GrandPaths(tree, Tail(paths), kinds)

\* `if x == "" { x = text }` over the texts in order: the first that is not empty
RECURSIVE FirstNonEmpty(_)
FirstNonEmpty(texts) ==
    IF texts = <<>> THEN <<>>
    ELSE IF Head(texts) # <<>> THEN Head(texts) ELSE FirstNonEmpty(Tail(texts))

\* `x = text` over the texts in order: the last one
LastOr(texts) == IF texts = <<>> THEN <<>> ELSE texts[Len(texts)]

\* the texts of every named child of every node of `paths`
RECURSIVE GrandAllTexts(_, _)
GrandAllTexts(tree, paths) ==
    IF paths = <<>> THEN <<>>
    ELSE LET named == NamedChildren(tree, Head(paths))
         IN [i \in 1..Len(named) |-> getNodeText(tree, named[i])]
            \o GrandAllTexts(tree, Tail(paths))

swiftModifiers(tree, path) ==
    GrandAllTexts(tree, OfKind(tree, NamedChildren(tree, path), {"modifiers"}))

swiftWithModifiers(tree, path, decl) ==
    LET modifiers == swiftModifiers(tree, path)
    IN IF Len(modifiers) > 0 THEN Join(modifiers, <<" ">>) \o <<" ">> \o decl ELSE decl

swiftDoc(tree, path, indent) ==
    LET comment == findDocComment(tree, path)
    IN IF comment # <<>> THEN indent \o comment \o <<"\n">> ELSE <<>>

processSwiftImport(tree, path, indent) ==
    indent \o getNodeText(tree, path) \o <<"\n">>

\* the type_identifier texts of a user_type nested in a type_annotation child
swiftAnnotatedUserType(tree, path) ==
    LastOr(GrandTexts(tree,
                      GrandPaths(tree, OfKind(tree, NamedChildren(tree, path),
                                              {"type_annotation"}), {"user_type"}),
                      {"type_identifier"}))

extractSwiftParameter(tree, path) ==
    LET named == NamedChildren(tree, path)
        paramNames == TextsOfKind(tree, named, {"simple_identifier"})
        paramType == LastOr(TextsOfKind(tree, named,
                                        {"optional_type", "user_type", "type_identifier"}))
    IN IF Len(paramNames) > 0
       THEN IF paramType # <<>>
            THEN Join(paramNames, <<" ">>) \o <<":", " ">> \o paramType
            ELSE Join(paramNames, <<" ">>)
       ELSE <<>>

swiftFunctionParameter(tree, child) ==
    LET named == NamedChildren(tree, child)
        paramName == FirstNonEmpty(TextsOfKind(tree, named, {"simple_identifier"}))
        paramType == LastOr(GrandTexts(tree, OfKind(tree, named, {"type_annotation"}),
                                       {"type_identifier"}))
    IN IF paramType # <<>> THEN paramName \o <<":", " ">> \o paramType ELSE paramName

extractSwiftParameters(tree, path) ==
    LET fps == OfKind(tree, NamedChildren(tree, path), {"function_parameter"})
    IN [i \in 1..Len(fps) |-> swiftFunctionParameter(tree, fps[i])]

\* the parameter list a declaration's children leave behind: a parameter list
\* replaces what was collected, a direct parameter is appended when not empty
RECURSIVE swiftParams(_, _, _)
swiftParams(tree, paths, params) ==
    IF paths = <<>> THEN params
    ELSE LET child == Head(paths)
         IN swiftParams(tree, Tail(paths),
               CASE Kind(tree, child) = "function_parameter_list" ->
                      extractSwiftParameters(tree, child)
                 [] Kind(tree, child) = "parameter" ->
                      (IF extractSwiftParameter(tree, child) # <<>>
                       THEN Append(params, extractSwiftParameter(tree, child))
                       ELSE params)
                 [] OTHER -> params)

\* the return type a function's children leave behind
RECURSIVE swiftReturnType(_, _, _)
swiftReturnType(tree, paths, returnType) ==
    IF paths = <<>> THEN returnType
    ELSE LET child == Head(paths)
         IN swiftReturnType(tree, Tail(paths),
               CASE Kind(tree, child) = "function_type" -> getNodeText(tree, child)
                 [] Kind(tree, child) \in {"user_type", "type_identifier"} ->
                      (IF returnType = <<>> THEN getNodeText(tree, child) ELSE returnType)
                 [] OTHER -> returnType)

processSwiftFunction(tree, path, indent) ==
    LET named == NamedChildren(tree, path)
        name == FirstNonEmpty(TextsOfKind(tree, named, {"simple_identifier"}))
        params == swiftParams(tree, named, <<>>)
        returnType == swiftReturnType(tree, named, <<>>)
        funcDecl == <<"func", " ">> \o name \o <<"(">> \o Join(params, <<",", " ">>) \o <<")">>
    IN swiftDoc(tree, path, indent)
       \o indent \o swiftWithModifiers(tree, path, funcDecl)
       \o (IF returnType # <<>> THEN <<" ", "-", ">", " ">> \o returnType ELSE <<>>)
       \o <<"\n">>

processSwiftInit(tree, path, indent) ==
    LET params == swiftParams(tree, NamedChildren(tree, path), <<>>)
        initDecl == <<"init", "(">> \o Join(params, <<",", " ">>) \o <<")">>
    IN swiftDoc(tree, path, indent)
       \o indent \o swiftWithModifiers(tree, path, initDecl) \o <<"\n">>

processSwiftDeinit(tree, path, indent) ==
    swiftDoc(tree, path, indent) \o indent \o <<"deinit", "\n">>

processSwiftProperty(tree, path, indent) ==
    LET named == NamedChildren(tree, path)
        name == LastOr(GrandTexts(tree, OfKind(tree, named, {"pattern"}),
                                  {"simple_identifier"}))
        propType == swiftAnnotatedUserType(tree, path)
        isComputed == OfKind(tree, named, {"computed_property"}) # <<>>
    IN swiftDoc(tree, path, indent)
       \o indent \o swiftWithModifiers(tree, path, name)
       \o (IF propType # <<>> THEN <<":", " ">> \o propType ELSE <<>>)
       \o (IF isComputed THEN <<" ", "{", " ", "get", " ", "set", " ", "}">> ELSE <<>>)
       \o <<"\n">>

\* the return type a subscript's children leave behind
RECURSIVE swiftSubscriptType(_, _, _)
swiftSubscriptType(tree, paths, returnType) ==
    IF paths = <<>> THEN returnType
    ELSE LET child == Head(paths)
         IN swiftSubscriptType(tree, Tail(paths),
               CASE Kind(tree, child) = "type_annotation" ->
                      (IF TextsOfKind(tree, NamedChildren(tree, child), {"type_identifier"}) # <<>>
                       THEN LastOr(TextsOfKind(tree, NamedChildren(tree, child),
                                               {"type_identifier"}))
                       ELSE returnType)
                 [] Kind(tree, child) \in {"user_type", "type_identifier"} ->
                      (IF returnType = <<>> THEN getNodeText(tree, child) ELSE returnType)
                 [] OTHER -> returnType)

processSwiftSubscript(tree, path, indent) ==
    LET named == NamedChildren(tree, path)
        params == swiftParams(tree, named, <<>>)
        returnType == swiftSubscriptType(tree, named, <<>>)
        subscriptDecl == <<"subscript", "(">> \o Join(params, <<",", " ">>) \o <<")">>
    IN swiftDoc(tree, path, indent)
       \o indent \o swiftWithModifiers(tree, path, subscriptDecl)
       \o (IF returnType # <<>> THEN <<" ", "-", ">", " ">> \o returnType ELSE <<>>)
       \o <<"\n">>

\* the alias a typealias's children leave behind, given whether the name is set
RECURSIVE swiftAliasType(_, _, _, _)
swiftAliasType(tree, paths, name, aliasType) ==
    IF paths = <<>> THEN aliasType
    ELSE LET child == Head(paths)
             text == getNodeText(tree, child)
         IN CASE Kind(tree, child) = "type_identifier" ->
                   IF name = <<>> THEN swiftAliasType(tree, Tail(paths), text, aliasType)
                   ELSE swiftAliasType(tree, Tail(paths), name,
                                       IF aliasType = <<>> THEN text ELSE aliasType)
              [] Kind(tree, child) \in {"function_type", "user_type", "tuple_type"} ->
                   swiftAliasType(tree, Tail(paths), name,
                                  IF aliasType = <<>> THEN text ELSE aliasType)
              [] OTHER -> swiftAliasType(tree, Tail(paths), name, aliasType)

processSwiftTypealias(tree, path, indent) ==
    LET named == NamedChildren(tree, path)
        name == FirstNonEmpty(TextsOfKind(tree, named, {"type_identifier"}))
        aliasType == swiftAliasType(tree, named, <<>>, <<>>)
    IN swiftDoc(tree, path, indent)
       \o indent \o swiftWithModifiers(tree, path, <<"typealias", " ">> \o name)
       \o (IF aliasType # <<>> THEN <<" ", "=", " ">> \o aliasType ELSE <<>>)
       \o <<"\n">>

processSwiftProtocolFunction(tree, path, indent) ==
    LET named == NamedChildren(tree, path)
        name == FirstNonEmpty(TextsOfKind(tree, named, {"simple_identifier"}))
        params == swiftParams(tree, OfKind(tree, named, {"parameter"}), <<>>)
        returnType == FirstNonEmpty(TextsOfKind(tree, named, {"user_type", "type_identifier"}))
    IN swiftDoc(tree, path, indent)
       \o indent \o <<"func", " ">> \o name \o <<"(">> \o Join(params, <<",", " ">>) \o <<")">>
       \o (IF returnType # <<>> THEN <<" ", "-", ">", " ">> \o returnType ELSE <<>>)
       \o <<"\n">>

processSwiftProtocolProperty(tree, path, indent) ==
    LET named == NamedChildren(tree, path)
        name == LastOr(GrandTexts(tree, OfKind(tree, named, {"pattern"}),
                                  {"simple_identifier"}))
        propType == swiftAnnotatedUserType(tree, path)
        requirements == LastOr(TextsOfKind(tree, named, {"protocol_property_requirements"}))
    IN swiftDoc(tree, path, indent)
       \o indent \o name
       \o (IF propType # <<>> THEN <<":", " ">> \o propType ELSE <<>>)
       \o (IF requirements # <<>> THEN <<" ">> \o requirements ELSE <<>>)
       \o <<"\n">>

\* the names of the cases: the first simple_identifier of each entry that has one
RECURSIVE swiftCaseNames(_, _)
swiftCaseNames(tree, entries) ==
    IF entries = <<>> THEN <<>>
    ELSE LET ids == TextsOfKind(tree, NamedChildren(tree, Head(entries)),
                                {"simple_identifier"})
         IN (IF ids # <<>> /\ ids[1] # <<>> THEN <<ids[1]>> ELSE <<>>)
            \o swiftCaseNames(tree, Tail(entries))

processSwiftEnumCase(tree, path, indent) ==
    LET cases == swiftCaseNames(tree, OfKind(tree, NamedChildren(tree, path), {"enum_case"}))
    IN IF Len(cases) > 0
       THEN indent \o <<"case", " ">> \o Join(cases, <<",", " ">>) \o <<"\n">>
       ELSE <<>>

\* the name a class declaration's children leave behind
RECURSIVE swiftClassName(_, _, _, _)
swiftClassName(tree, paths, isExtension, name) ==
    IF paths = <<>> THEN name
    ELSE LET child == Head(paths)
             inner == TextsOfKind(tree, NamedChildren(tree, child), {"type_identifier"})
         IN swiftClassName(tree, Tail(paths), isExtension,
               CASE Kind(tree, child) = "type_identifier" ->
                      (IF name = <<>> THEN getNodeText(tree, child) ELSE name)
                 [] Kind(tree, child) = "user_type" ->
                      (IF isExtension /\ name = <<>> /\ inner # <<>> THEN inner[1] ELSE name)
                 [] OTHER -> name)

\* the second type_identifier that finds the name set: an enum's raw type
RECURSIVE swiftRawType(_, _, _)
swiftRawType(texts, name, rawType) ==
    IF texts = <<>> THEN rawType
    ELSE IF name = <<>> THEN swiftRawType(Tail(texts), Head(texts), rawType)
    ELSE swiftRawType(Tail(texts), name, IF rawType = <<>> THEN Head(texts) ELSE rawType)

swiftClause(names) ==
    IF Len(names) > 0 THEN <<":", " ">> \o Join(names, <<",", " ">>) ELSE <<>>

RECURSIVE processSwiftNode(_, _, _)
RECURSIVE swiftMembers(_, _, _)

\* a body whose members all go through processSwiftNode, in order
swiftMembers(tree, paths, indent) ==
    IF paths = <<>> THEN <<>>
    ELSE processSwiftNode(tree, Head(paths), Len(indent) \div 2)
         \o swiftMembers(tree, Tail(paths), indent)

processSwiftClassBody(tree, path, indent) ==
    swiftMembers(tree, NamedChildren(tree, path), indent)

processSwiftStructBody(tree, path, indent) ==
    swiftMembers(tree, NamedChildren(tree, path), indent)

processSwiftExtensionBody(tree, path, indent) ==
    swiftMembers(tree, NamedChildren(tree, path), indent)

RECURSIVE swiftProtocolMembers(_, _, _)
swiftProtocolMembers(tree, paths, indent) ==
    IF paths = <<>> THEN <<>>
    ELSE LET child == Head(paths)
         IN (CASE Kind(tree, child) = "protocol_function_declaration" ->
                    processSwiftProtocolFunction(tree, child, indent)
               [] Kind(tree, child) = "protocol_property_declaration" ->
                    processSwiftProtocolProperty(tree, child, indent)
               [] OTHER -> processSwiftNode(tree, child, Len(indent) \div 2))
            \o swiftProtocolMembers(tree, Tail(paths), indent)

processSwiftProtocolBody(tree, path, indent) ==
    swiftProtocolMembers(tree, NamedChildren(tree, path), indent)

\* the cases are collected while the other members are written, and written
\* on one line after the loop
processSwiftEnumClassBody(tree, path, indent) ==
    LET named == NamedChildren(tree, path)
        others == SelectSeq(named, LAMBDA q : Kind(tree, q) # "enum_entry")
        enumCases == swiftCaseNames(tree, OfKind(tree, named, {"enum_entry"}))
    IN swiftMembers(tree, others, indent)
       \o (IF Len(enumCases) > 0
           THEN indent \o <<"case", " ">> \o Join(enumCases, <<",", " ">>) \o <<"\n">>
           ELSE <<>>)

RECURSIVE swiftEnumMembers(_, _, _)
swiftEnumMembers(tree, paths, indent) ==
    IF paths = <<>> THEN <<>>
    ELSE LET child == Head(paths)
         IN (IF Kind(tree, child) = "enum_case_declaration"
             THEN processSwiftEnumCase(tree, child, indent)
             ELSE processSwiftNode(tree, child, Len(indent) \div 2))
            \o swiftEnumMembers(tree, Tail(paths), indent)

processSwiftEnumBody(tree, path, indent) ==
    swiftEnumMembers(tree, NamedChildren(tree, path), indent)

RECURSIVE swiftClassBodies(_, _, _)
swiftClassBodies(tree, paths, indent) ==
    IF paths = <<>> THEN <<>>
    ELSE LET child == Head(paths)
         IN (CASE Kind(tree, child) \in {"class_body", "struct_body"} ->
                    processSwiftClassBody(tree, child, indent \o <<" ", " ">>)
               [] Kind(tree, child) = "enum_class_body" ->
                    processSwiftEnumClassBody(tree, child, indent \o <<" ", " ">>)
               [] OTHER -> <<>>)
            \o swiftClassBodies(tree, Tail(paths), indent)

\* the bodies of kind `kind` among the children, each through its processor
RECURSIVE swiftBodies(_, _, _, _)
swiftBodies(tree, paths, kind, indent) ==
    IF paths = <<>> THEN <<>>
    ELSE LET child == Head(paths)
         IN (IF Kind(tree, child) # kind THEN <<>>
             ELSE CASE kind = "struct_body" ->
                         processSwiftStructBody(tree, child, indent \o <<" ", " ">>)
                    [] kind = "protocol_body" ->
                         processSwiftProtocolBody(tree, child, indent \o <<" ", " ">>)
                    [] kind = "enum_body" ->
                         processSwiftEnumBody(tree, child, indent \o <<" ", " ">>)
                    [] kind = "extension_body" ->
                         processSwiftExtensionBody(tree, child, indent \o <<" ", " ">>))
            \o swiftBodies(tree, Tail(paths), kind, indent)

processSwiftClass(tree, path, indent) ==
    LET named == NamedChildren(tree, path)
        nodeText == getNodeText(tree, path)
        isStruct == Contains(nodeText, <<"struct", " ">>)
        isEnum == Contains(nodeText, <<"enum", " ">>)
        isExtension == Contains(nodeText, <<"extension", " ">>)
        name == swiftClassName(tree, named, isExtension, <<>>)
        inheritance == GrandTexts(tree,
                          GrandPaths(tree, OfKind(tree, named, {"inheritance_specifier"}),
                                     {"user_type"}),
                          {"type_identifier"})
        declType == IF isStruct THEN <<"struct">>
                    ELSE IF isEnum THEN <<"enum">>
                    ELSE IF isExtension THEN <<"extension">>
                    ELSE <<"class">>
    IN swiftDoc(tree, path, indent)
       \o indent \o swiftWithModifiers(tree, path, declType \o <<" ">> \o name)
       \o swiftClause(inheritance) \o <<" ", "{", "\n">>
       \o swiftClassBodies(tree, named, indent)
       \o indent \o <<"}", "\n">>

\* struct, protocol and extension: name, directly inherited identifiers, body
swiftInherited(tree, path) ==
    GrandTexts(tree, OfKind(tree, NamedChildren(tree, path), {"inheritance_specifier"}),
               {"type_identifier"})

swiftFirstTypeName(tree, path) ==
    FirstNonEmpty(TextsOfKind(tree, NamedChildren(tree, path), {"type_identifier"}))

processSwiftStruct(tree, path, indent) ==
    swiftDoc(tree, path, indent)
    \o indent
    \o swiftWithModifiers(tree, path, <<"struct", " ">> \o swiftFirstTypeName(tree, path))
    \o swiftClause(swiftInherited(tree, path)) \o <<" ", "{", "\n">>
    \o swiftBodies(tree, NamedChildren(tree, path), "struct_body", indent)
    \o indent \o <<"}", "\n">>

processSwiftProtocol(tree, path, indent) ==
    swiftDoc(tree, path, indent)
    \o indent
    \o swiftWithModifiers(tree, path, <<"protocol", " ">> \o swiftFirstTypeName(tree, path))
    \o swiftClause(swiftInherited(tree, path)) \o <<" ", "{", "\n">>
    \o swiftBodies(tree, NamedChildren(tree, path), "protocol_body", indent)
    \o indent \o <<"}", "\n">>

processSwiftEnum(tree, path, indent) ==
    LET texts == TextsOfKind(tree, NamedChildren(tree, path), {"type_identifier"})
        rawType == swiftRawType(texts, <<>>, <<>>)
    IN swiftDoc(tree, path, indent)
       \o indent
       \o swiftWithModifiers(tree, path, <<"enum", " ">> \o FirstNonEmpty(texts))
       \o (IF rawType # <<>> THEN <<":", " ">> \o rawType ELSE <<>>)
       \o <<" ", "{", "\n">>
       \o swiftBodies(tree, NamedChildren(tree, path), "enum_body", indent)
       \o indent \o <<"}", "\n">>

processSwiftExtension(tree, path, indent) ==
    swiftDoc(tree, path, indent)
    \o indent \o <<"extension", " ">> \o swiftFirstTypeName(tree, path)
    \o swiftClause(swiftInherited(tree, path)) \o <<" ", "{", "\n">>
    \o swiftBodies(tree, NamedChildren(tree, path), "extension_body", indent)
    \o indent \o <<"}", "\n">>

processSwiftNode(tree, path, indentLevel) ==
    LET indent == Repeat(<<" ", " ">>, indentLevel)
        nodeType == Kind(tree, path)
    IN CASE nodeType = "import_declaration" -> processSwiftImport(tree, path, indent)
         [] nodeType = "class_declaration" -> processSwiftClass(tree, path, indent)
         [] nodeType = "struct_declaration" -> processSwiftStruct(tree, path, indent)
         [] nodeType = "protocol_declaration" -> processSwiftProtocol(tree, path, indent)
         [] nodeType = "enum_declaration" -> processSwiftEnum(tree, path, indent)
         [] nodeType = "function_declaration" -> processSwiftFunction(tree, path, indent)
         [] nodeType = "init_declaration" -> processSwiftInit(tree, path, indent)
         [] nodeType = "deinit_declaration" -> processSwiftDeinit(tree, path, indent)
         [] nodeType \in {"variable_declaration", "property_declaration"} ->
              processSwiftProperty(tree, path, indent)
         [] nodeType = "subscript_declaration" -> processSwiftSubscript(tree, path, indent)
         [] nodeType = "extension_declaration" -> processSwiftExtension(tree, path, indent)
         [] nodeType = "typealias_declaration" -> processSwiftTypealias(tree, path, indent)
         [] OTHER -> <<>>

ExtractSwiftOutline(tree) == swiftMembers(tree, NamedChildren(tree, <<>>), <<>>)

----------------------------------------------------------------------------
(* c.go *)

LineTag(lineNum) == <<" ", "/", "/", " ", "line", " ">> \o FormatUint(lineNum)

BodyTag == <<" ", "{", " ", "/", "/", ".", ".", ".", " ", "}">>

\* a documentation line keeps its own comment marker, or is given one
cDocLine(indent, line) ==
    IF HasPrefix(line, <<"/", "/">>) \/ HasPrefix(line, <<"/", "*">>) \/ HasPrefix(line, <<"*">>)
    THEN indent \o TrimSpace(line) \o <<"\n">>
    ELSE indent \o <<"/", "/", " ">> \o TrimSpace(line) \o <<"\n">>

cDoc(tree, path, indent) ==
    LET doc == findDocComment(tree, path)
        lines == SplitLines(doc)
    IN IF doc # <<>>
       THEN Flatten([i \in 1..Len(lines) |-> cDocLine(indent, lines[i])])
       ELSE <<>>

cFieldText(tree, path, name) ==
    IF HasField(tree, path, name)
    THEN getNodeText(tree, ChildByFieldName(tree, path, name))
    ELSE <<>>

RECURSIVE ReplaceAll(_, _, _)
\* strings.ReplaceAll: the occurrences of `old` from left to right, without
\* overlap
ReplaceAll(s, old, new) ==
    IF Len(s) < Len(old) THEN s
    ELSE IF SubSeq(s, 1, Len(old)) = old
    THEN new \o ReplaceAll(SubSeq(s, Len(old) + 1, Len(s)), old, new)
    ELSE <<Head(s)>> \o ReplaceAll(Tail(s), old, new)

RECURSIVE collapseSpaces(_)
\* the loop that replaces two spaces by one while there are two spaces
collapseSpaces(s) ==
    IF Contains(s, <<" ", " ">>)
    THEN collapseSpaces(ReplaceAll(s, <<" ", " ">>, <<" ">>))
    ELSE s

\* a clean-up that replaces two spaces by one in a single pass
cSquashOnePass(s) ==
    ReplaceAll(ReplaceAll(ReplaceAll(s, <<"\n">>, <<" ">>), <<"\t">>, <<" ">>),
               <<" ", " ">>, <<" ">>)

\* the clean-up of a signature: newlines and tabs become spaces, runs of
\* spaces become one space
cSquash(s) ==
    collapseSpaces(ReplaceAll(ReplaceAll(s, <<"\n">>, <<" ">>), <<"\t">>, <<" ">>))

extractFunctionSignature(tree, path) ==
    LET returnType == cFieldText(tree, path, "type")
        typePart == IF HasField(tree, path, "type") /\ ~Contains(returnType, <<"(">>)
                    THEN <<returnType>> ELSE <<>>
        declPart == IF HasField(tree, path, "declarator")
                    THEN <<cFieldText(tree, path, "declarator")>> ELSE <<>>
    IN TrimSpace(cSquash(Join(typePart \o declPart, <<" ">>)))

RECURSIVE extractFunctionName(_, _)
extractFunctionName(tree, path) ==
    CASE Kind(tree, path) \in {"function_declarator", "pointer_declarator"} ->
           (IF HasField(tree, path, "declarator")
            THEN extractFunctionName(tree, ChildByFieldName(tree, path, "declarator"))
            ELSE <<>>)
      [] Kind(tree, path) = "identifier" -> getNodeText(tree, path)
      [] OTHER -> <<>>

processCDefine(tree, path, indent) ==
    indent \o getNodeText(tree, path) \o LineTag(getNodeLineNumber(tree, path)) \o <<"\n">>

processCInclude(tree, path, indent) ==
    indent \o getNodeText(tree, path) \o <<"\n">>

processCFunction(tree, path, indent) ==
    IF ~HasField(tree, path, "declarator") THEN <<>>
    ELSE IF extractFunctionName(tree, ChildByFieldName(tree, path, "declarator")) = <<>>
    THEN <<>>
    ELSE cDoc(tree, path, indent)
         \o indent \o extractFunctionSignature(tree, path) \o BodyTag
         \o LineTag(getNodeLineNumber(tree, path)) \o <<"\n", "\n">>

processCDeclaration(tree, path, indent) ==
    LET declarationText == getNodeText(tree, path)
    IN IF Contains(declarationText, <<";">>) /\ ~Contains(declarationText, <<"{">>)
       THEN indent \o TrimSpace(declarationText)
            \o LineTag(getNodeLineNumber(tree, path)) \o <<"\n">>
       ELSE <<>>

cStructMember(tree, child, indent) ==
    IF Kind(tree, child) \in {"field_declaration", "enumerator"}
    THEN indent \o TrimSpace(getNodeText(tree, child)) \o <<"\n">>
    ELSE <<>>

processCStructBody(tree, bodyNode, indentLevel) ==
    LET indent == Repeat(<<"\t">>, indentLevel)
        named == NamedChildren(tree, bodyNode)
    IN Flatten([i \in 1..Len(named) |-> cStructMember(tree, named[i], indent)])

processCStructUnionEnum(tree, path, indent) ==
    LET structType == CASE Kind(tree, path) = "struct_specifier" -> <<"struct">>
                        [] Kind(tree, path) = "union_specifier" -> <<"union">>
                        [] Kind(tree, path) = "enum_specifier" -> <<"enum">>
                        [] OTHER -> <<>>
        name == cFieldText(tree, path, "name")
    IN cDoc(tree, path, indent)
       \o indent \o structType
       \o (IF name # <<>> THEN <<" ">> \o name ELSE <<>>)
       \o <<" ", "{">> \o LineTag(getNodeLineNumber(tree, path)) \o <<"\n">>
       \o (IF HasField(tree, path, "body")
           THEN processCStructBody(tree, ChildByFieldName(tree, path, "body"), 1)
           ELSE <<>>)
       \o indent \o <<"}", "\n", "\n">>

processCTypedef(tree, path, indent) ==
    indent \o TrimSpace(getNodeText(tree, path))
    \o LineTag(getNodeLineNumber(tree, path)) \o <<"\n", "\n">>

TrimSuffix(s, suffix) ==
    IF HasSuffix(s, suffix) THEN SubSeq(s, 1, Len(s) - Len(suffix)) ELSE s

cClassMember(tree, child, indent) ==
    CASE Kind(tree, child) = "access_specifier" ->
           indent \o TrimSuffix(getNodeText(tree, child), <<":">>) \o <<":", "\n">>
      [] Kind(tree, child) \in {"function_definition", "constructor_declaration",
                                 "destructor_declaration"} ->
           indent \o <<"\t">> \o extractFunctionSignature(tree, child) \o BodyTag
           \o LineTag(getNodeLineNumber(tree, child)) \o <<"\n">>
      [] Kind(tree, child) = "declaration" ->
           indent \o <<"\t">> \o TrimSpace(getNodeText(tree, child))
           \o LineTag(getNodeLineNumber(tree, child)) \o <<"\n">>
      [] OTHER -> <<>>

processCClassBody(tree, bodyNode, indent) ==
    LET named == NamedChildren(tree, bodyNode)
    IN Flatten([i \in 1..Len(named) |-> cClassMember(tree, named[i], indent)])

processCClass(tree, path, indent) ==
    LET name == cFieldText(tree, path, "name")
        bases == TextsOfKind(tree, NamedChildren(tree, path), {"base_class_clause"})
        baseClause == IF bases # <<>> THEN <<" ", ":", " ">> \o bases[1] ELSE <<>>
    IN cDoc(tree, path, indent)
       \o indent \o <<"class", " ">> \o name \o baseClause
       \o <<" ", "{">> \o LineTag(getNodeLineNumber(tree, path)) \o <<"\n">>
       \o (IF HasField(tree, path, "body")
           THEN processCClassBody(tree, ChildByFieldName(tree, path, "body"),
                                  Repeat(<<"\t">>, 1))
           ELSE <<>>)
       \o indent \o <<"}", "\n", "\n">>

RECURSIVE processCNode(_, _, _)
RECURSIVE cEach(_, _, _)

\* processCNode over the nodes `paths`, in order
cEach(tree, paths, indentLevel) ==
    IF paths = <<>> THEN <<>>
    ELSE processCNode(tree, Head(paths), indentLevel) \o cEach(tree, Tail(paths), indentLevel)

processCNamespace(tree, path, indentLevel) ==
    LET indent == Repeat(<<"\t">>, indentLevel)
        name == cFieldText(tree, path, "name")
    IN cDoc(tree, path, indent)
       \o indent \o <<"namespace">>
       \o (IF name # <<>> THEN <<" ">> \o name ELSE <<>>)
       \o <<" ", "{">> \o LineTag(getNodeLineNumber(tree, path)) \o <<"\n">>
       \o (IF HasField(tree, path, "body")
           THEN cEach(tree, NamedChildren(tree, ChildByFieldName(tree, path, "body")),
                      indentLevel + 1)
           ELSE <<>>)
       \o indent \o <<"}", "\n", "\n">>

processCTemplateDeclaration(tree, path, indentLevel) ==
    LET indent == Repeat(<<"\t">>, indentLevel)
        lines == SplitLines(getNodeText(tree, path))
        named == NamedChildren(tree, path)
    IN cDoc(tree, path, indent)
       \o indent \o TrimSpace(lines[1]) \o LineTag(getNodeLineNumber(tree, path)) \o <<"\n">>
       \o cEach(tree, SelectSeq(named, LAMBDA q : Kind(tree, q) # "template_parameter_list"),
                indentLevel)

processCNode(tree, path, indentLevel) ==
    LET indent == Repeat(<<"\t">>, indentLevel)
        kind == Kind(tree, path)
    IN CASE kind = "translation_unit" -> cEach(tree, NamedChildren(tree, path), indentLevel)
         [] kind \in {"preproc_def", "preproc_function_def"} -> processCDefine(tree, path, indent)
         [] kind = "preproc_include" -> processCInclude(tree, path, indent)
         [] kind = "function_definition" -> processCFunction(tree, path, indent)
         [] kind = "declaration" -> processCDeclaration(tree, path, indent)
         [] kind \in {"struct_specifier", "union_specifier", "enum_specifier"} ->
              processCStructUnionEnum(tree, path, indent)
         [] kind = "type_definition" -> processCTypedef(tree, path, indent)
         [] kind = "namespace_definition" -> processCNamespace(tree, path, indentLevel)
         [] kind = "class_specifier" -> processCClass(tree, path, indent)
         [] kind = "template_declaration" -> processCTemplateDeclaration(tree, path, indentLevel)
         [] OTHER -> cEach(tree, NamedChildren(tree, path), indentLevel)

ExtractCOutline(tree) == processCNode(tree, <<>>, 0)

ExtractCppOutline(tree) == processCNode(tree, <<>>, 0)

----------------------------------------------------------------------------
(* js.go *)

\* the opened body of a JavaScript or TypeScript declaration and its closing
jsStub(indent) ==
    indent \o <<" ", " ", "/", "/", " ", ".", ".", ".", "\n">> \o indent \o <<"}", "\n", "\n">>

jsOpen(lineNum) == <<" ", "{">> \o LineTag(lineNum) \o <<"\n">>

jsFunction(tree, path, indent) ==
    IF ~HasField(tree, path, "name") THEN <<>>
    ELSE writeDoc(indent, findDocComment(tree, path))
         \o indent \o <<"function", " ">> \o cFieldText(tree, path, "name")
         \o cFieldText(tree, path, "parameters")
         \o jsOpen(getNodeLineNumber(tree, path)) \o jsStub(indent)

jsIsStatic(tree, path) ==
    \E j \in 1..ChildCount(tree, path) : Kind(tree, path \o <<j>>) = "static"

jsMethod(tree, path, indent) ==
    IF ~HasField(tree, path, "name") THEN <<>>
    ELSE IF HasPrefix(cFieldText(tree, path, "name"), <<"#">>) THEN <<>>
    ELSE writeDoc(indent, findDocComment(tree, path))
         \o indent \o (IF jsIsStatic(tree, path) THEN <<"static", " ">> ELSE <<>>)
         \o cFieldText(tree, path, "name") \o cFieldText(tree, path, "parameters")
         \o jsOpen(getNodeLineNumber(tree, path)) \o jsStub(indent)

jsHeritage(tree, path) ==
    LET heritage == TextsOfKind(tree, Children(tree, path), {"class_heritage"})
    IN IF heritage # <<>> THEN <<" ">> \o heritage[1] ELSE <<>>

\* one variable_declarator of a lexical_declaration or variable_declaration
jsDeclarator(tree, path, declarator, indent) ==
    IF ~(Kind(tree, declarator) = "variable_declarator"
         /\ NamedChildCount(tree, declarator) >= 2)
    THEN <<>>
    ELSE LET nameNode == NamedChild(tree, declarator, 0)
             valueNode == NamedChild(tree, declarator, 1)
             declType == IF Kind(tree, path) = "lexical_declaration"
                         THEN (IF Kind(tree, path \o <<1>>) = "let"
                               THEN <<"let">> ELSE <<"const">>)
                         ELSE <<"var">>
         IN CASE Kind(tree, valueNode) \in {"arrow_function", "function"} ->
                   writeDoc(indent, findDocComment(tree, path))
                   \o indent \o declType \o <<" ">> \o getNodeText(tree, nameNode)
                   \o <<" ", "=", " ">>
                   \o (IF Kind(tree, valueNode) = "arrow_function"
                       THEN cFieldText(tree, valueNode, "parameters") \o <<" ", "=", ">">>
                       ELSE <<"function">> \o cFieldText(tree, valueNode, "parameters"))
                   \o jsOpen(getNodeLineNumber(tree, path)) \o jsStub(indent)
              [] Kind(tree, valueNode) = "call_expression" ->
                   (IF cFieldText(tree, valueNode, "function") = <<"require">>
                    THEN getNodeText(tree, path) \o <<"\n">>
                    ELSE <<>>)
              [] OTHER -> <<>>

jsDeclaration(tree, path, indent) ==
    LET named == NamedChildren(tree, path)
    IN Flatten([i \in 1..Len(named) |-> jsDeclarator(tree, path, named[i], indent)])

RECURSIVE processJSNode(_, _, _)
RECURSIVE jsEach(_, _, _)

jsEach(tree, paths, indentLevel) ==
    IF paths = <<>> THEN <<>>
    ELSE processJSNode(tree, Head(paths), indentLevel) \o jsEach(tree, Tail(paths), indentLevel)

jsClass(tree, path, indent, indentLevel) ==
    IF ~HasField(tree, path, "name") THEN <<>>
    ELSE writeDoc(indent, findDocComment(tree, path))
         \o indent \o <<"class", " ">> \o cFieldText(tree, path, "name")
         \o jsHeritage(tree, path) \o jsOpen(getNodeLineNumber(tree, path))
         \o (IF HasField(tree, path, "body")
             THEN jsEach(tree, NamedChildren(tree, ChildByFieldName(tree, path, "body")),
                         indentLevel + 1)
             ELSE <<>>)
         \o indent \o <<"}", "\n", "\n">>

\* the closure processNode of ExtractJSOutline
processJSNode(tree, path, indentLevel) ==
    LET indent == Repeat(<<" ">>, indentLevel * 2)
        kind == Kind(tree, path)
    IN CASE kind = "program" -> jsEach(tree, NamedChildren(tree, path), indentLevel)
         [] kind = "import_statement" -> getNodeText(tree, path) \o <<"\n">>
         [] kind \in {"function_declaration", "generator_function_declaration"} ->
              jsFunction(tree, path, indent)
         [] kind = "method_definition" -> jsMethod(tree, path, indent)
         [] kind = "class_declaration" -> jsClass(tree, path, indent, indentLevel)
         [] kind = "export_statement" ->
              (IF NamedChildCount(tree, path) > 0
               THEN processJSNode(tree, NamedChild(tree, path, 0), indentLevel)
               ELSE <<>>)
         [] kind \in {"lexical_declaration", "variable_declaration"} ->
              jsDeclaration(tree, path, indent)
         [] OTHER -> <<>>

ExtractJSOutline(tree) == processJSNode(tree, <<>>, 0)

----------------------------------------------------------------------------
(* ts.go.  A declaration is written from `decl`; its documentation is looked *)
(* up from `node`, which is `decl` itself or the export_statement around it, *)
(* and `lead` is the "export " or "export default " written before it.      *)

tsFunction(tree, node, decl, lead, indent) ==
    IF ~HasField(tree, decl, "name") THEN <<>>
    ELSE writeDoc(indent, findDocComment(tree, node))
         \o indent \o lead \o <<"function", " ">> \o cFieldText(tree, decl, "name")
         \o cFieldText(tree, decl, "parameters") \o cFieldText(tree, decl, "return_type")
         \o jsOpen(getNodeLineNumber(tree, decl)) \o jsStub(indent)

tsMethod(tree, path, indent) ==
    IF ~HasField(tree, path, "name") THEN <<>>
    ELSE IF HasPrefix(cFieldText(tree, path, "name"), <<"#">>) THEN <<>>
    ELSE writeDoc(indent, findDocComment(tree, path))
         \o indent \o (IF jsIsStatic(tree, path) THEN <<"static", " ">> ELSE <<>>)
         \o cFieldText(tree, path, "name") \o cFieldText(tree, path, "parameters")
         \o cFieldText(tree, path, "return_type")
         \o jsOpen(getNodeLineNumber(tree, path)) \o jsStub(indent)

tsMemberDoc(tree, child, indent) ==
    LET doc == findDocComment(tree, child)
    IN IF doc # <<>> THEN indent \o <<" ", " ", "/", "/", " ">> \o doc \o <<"\n">> ELSE <<>>

tsIsOptional(tree, child) ==
    \E j \in 1..ChildCount(tree, child) : Kind(tree, child \o <<j>>) = "?"

tsSignature(tree, child, indent) ==
    CASE Kind(tree, child) = "property_signature" ->
           (IF HasField(tree, child, "name") /\ HasField(tree, child, "type")
            THEN tsMemberDoc(tree, child, indent)
                 \o indent \o <<" ", " ">> \o cFieldText(tree, child, "name")
                 \o (IF tsIsOptional(tree, child) THEN <<"?">> ELSE <<>>)
                 \o <<":", " ">> \o cFieldText(tree, child, "type") \o <<";", "\n">>
            ELSE <<>>)
      [] Kind(tree, child) = "method_signature" ->
           (IF HasField(tree, child, "name")
            THEN tsMemberDoc(tree, child, indent)
                 \o indent \o <<" ", " ">> \o cFieldText(tree, child, "name")
                 \o cFieldText(tree, child, "parameters")
                 \o optField(tree, child, "return_type", <<":", " ">>) \o <<";", "\n">>
            ELSE <<>>)
      [] OTHER -> <<>>

tsInterface(tree, node, decl, lead, indent) ==
    IF ~HasField(tree, decl, "name") THEN <<>>
    ELSE LET named == IF HasField(tree, decl, "body")
                      THEN NamedChildren(tree, ChildByFieldName(tree, decl, "body"))
                      ELSE <<>>
         IN writeDoc(indent, findDocComment(tree, node))
            \o indent \o lead \o <<"interface", " ">> \o cFieldText(tree, decl, "name")
            \o optField(tree, decl, "extends_clause", <<" ">>)
            \o jsOpen(getNodeLineNumber(tree, decl))
            \o Flatten([i \in 1..Len(named) |-> tsSignature(tree, named[i], indent)])
            \o indent \o <<"}", "\n", "\n">>

tsTypeAlias(tree, node, decl, lead, indent) ==
    IF ~(HasField(tree, decl, "name") /\ HasField(tree, decl, "value")) THEN <<>>
    ELSE writeDoc(indent, findDocComment(tree, node))
         \o indent \o lead \o <<"type", " ">> \o cFieldText(tree, decl, "name")
         \o <<" ", "=", " ">> \o cFieldText(tree, decl, "value") \o <<";">>
         \o LineTag(getNodeLineNumber(tree, decl)) \o <<"\n", "\n">>

tsDeclType(tree, decl) ==
    IF Kind(tree, decl) = "lexical_declaration"
    THEN (IF Kind(tree, decl \o <<1>>) = "let" THEN <<"let">> ELSE <<"const">>)
    ELSE <<"var">>

tsFunctionValue(tree, node, decl, declarator, lead, indent) ==
    LET nameNode == NamedChild(tree, declarator, 0)
        valueNode == NamedChild(tree, declarator, 1)
    IN writeDoc(indent, findDocComment(tree, node))
       \o indent \o lead \o tsDeclType(tree, decl) \o <<" ">> \o getNodeText(tree, nameNode)
       \o <<" ", "=", " ">>
       \o (IF Kind(tree, valueNode) = "arrow_function"
           THEN cFieldText(tree, valueNode, "parameters")
                \o cFieldText(tree, valueNode, "return_type") \o <<" ", "=", ">">>
           ELSE <<"function">> \o cFieldText(tree, valueNode, "parameters")
                \o cFieldText(tree, valueNode, "return_type"))
       \o jsOpen(getNodeLineNumber(tree, decl)) \o jsStub(indent)

\* one declarator of a declaration that is not exported
tsDeclarator(tree, path, declarator, indent) ==
    IF ~(Kind(tree, declarator) = "variable_declarator"
         /\ NamedChildCount(tree, declarator) >= 2)
    THEN <<>>
    ELSE LET valueNode == NamedChild(tree, declarator, 1)
         IN CASE Kind(tree, valueNode) \in {"arrow_function", "function"} ->
                   tsFunctionValue(tree, path, path, declarator, <<>>, indent)
              [] Kind(tree, valueNode) = "call_expression" ->
                   (IF cFieldText(tree, valueNode, "function") = <<"require">>
                    THEN getNodeText(tree, path) \o <<"\n">>
                    ELSE <<>>)
              [] OTHER -> <<>>

\* one declarator of an exported declaration
tsExportedDeclarator(tree, node, decl, declarator, indent) ==
    IF ~(Kind(tree, declarator) = "variable_declarator"
         /\ NamedChildCount(tree, declarator) >= 2)
    THEN <<>>
    ELSE LET nameNode == NamedChild(tree, declarator, 0)
             valueNode == NamedChild(tree, declarator, 1)
         IN IF Kind(tree, valueNode) \in {"arrow_function", "function"}
            THEN tsFunctionValue(tree, node, decl, declarator, <<"export", " ">>, indent)
            ELSE indent \o <<"export", " ">> \o tsDeclType(tree, decl) \o <<" ">>
                 \o getNodeText(tree, nameNode) \o <<";">>
                 \o LineTag(getNodeLineNumber(tree, decl)) \o <<"\n", "\n">>

tsDeclaration(tree, path, indent) ==
    LET named == NamedChildren(tree, path)
    IN Flatten([i \in 1..Len(named) |-> tsDeclarator(tree, path, named[i], indent)])

tsExportedDeclaration(tree, node, decl, indent) ==
    LET named == NamedChildren(tree, decl)
    IN Flatten([i \in 1..Len(named) |->
                  tsExportedDeclarator(tree, node, decl, named[i], indent)])

tsExportText(tree, node, indent) ==
    indent \o getNodeText(tree, node) \o LineTag(getNodeLineNumber(tree, node))
    \o <<"\n", "\n">>

RECURSIVE processTSNode(_, _, _)
RECURSIVE tsEach(_, _, _)

tsEach(tree, paths, indentLevel) ==
    IF paths = <<>> THEN <<>>
    ELSE processTSNode(tree, Head(paths), indentLevel) \o tsEach(tree, Tail(paths), indentLevel)

tsClass(tree, node, decl, lead, indent, indentLevel) ==
    IF ~HasField(tree, decl, "name") THEN <<>>
    ELSE writeDoc(indent, findDocComment(tree, node))
         \o indent \o lead \o <<"class", " ">> \o cFieldText(tree, decl, "name")
         \o jsHeritage(tree, decl) \o jsOpen(getNodeLineNumber(tree, decl))
         \o (IF HasField(tree, decl, "body")
             THEN tsEach(tree, NamedChildren(tree, ChildByFieldName(tree, decl, "body")),
                         indentLevel + 1)
             ELSE <<>>)
         \o indent \o <<"}", "\n", "\n">>

tsExport(tree, node, indent, indentLevel) ==
    IF NamedChildCount(tree, node) = 0 THEN tsExportText(tree, node, indent)
    ELSE LET firstChild == NamedChild(tree, node, 0)
             kind == Kind(tree, firstChild)
             isDefault == \E i \in 1..ChildCount(tree, node) :
                              Kind(tree, node \o <<i>>) = "default"
             lead == IF isDefault THEN <<"export", " ", "default", " ">>
                     ELSE <<"export", " ">>
         IN CASE kind \in {"function_declaration", "generator_function_declaration"} ->
                   tsFunction(tree, node, firstChild, lead, indent)
              [] kind = "class_declaration" ->
                   tsClass(tree, node, firstChild, lead, indent, indentLevel)
              [] kind = "interface_declaration" ->
                   tsInterface(tree, node, firstChild, <<"export", " ">>, indent)
              [] kind = "type_alias_declaration" ->
                   tsTypeAlias(tree, node, firstChild, <<"export", " ">>, indent)
              [] kind \in {"lexical_declaration", "variable_declaration"} ->
                   tsExportedDeclaration(tree, node, firstChild, indent)
              [] OTHER -> tsExportText(tree, node, indent)

\* the closure processNode of ExtractTSOutline
processTSNode(tree, path, indentLevel) ==
    LET indent == Repeat(<<" ">>, indentLevel * 2)
        kind == Kind(tree, path)
    IN CASE kind = "program" -> tsEach(tree, NamedChildren(tree, path), indentLevel)
         [] kind = "import_statement" -> getNodeText(tree, path) \o <<"\n">>
         [] kind \in {"function_declaration", "generator_function_declaration"} ->
              tsFunction(tree, path, path, <<>>, indent)
         [] kind = "method_definition" -> tsMethod(tree, path, indent)
         [] kind = "class_declaration" -> tsClass(tree, path, path, <<>>, indent, indentLevel)
         [] kind = "interface_declaration" -> tsInterface(tree, path, path, <<>>, indent)
         [] kind = "export_statement" -> tsExport(tree, path, indent, indentLevel)
         [] kind \in {"lexical_declaration", "variable_declaration"} ->
              tsDeclaration(tree, path, indent)
         [] kind = "type_alias_declaration" -> tsTypeAlias(tree, path, path, <<>>, indent)
         [] OTHER -> <<>>

ExtractTSOutline(tree) == processTSNode(tree, <<>>, 0)

----------------------------------------------------------------------------
(* Syntax trees the parser can hand over.  A tree is laid out from a forest *)
(* of descriptors [t |-> kind of item, m |-> descriptors of its members];   *)
(* every item starts on a line of its own and is named after that line, so  *)
(* that no two declarations of a tree share a name.                         *)

Desc(t, m) == [t |-> t, m |-> m]

\* a body with one statement in it
SecretBody == <<"{", " ", "secret", "(", ")", " ", "}">>

\* the name of the declaration that starts on `row`
NameOf(row) == <<"n">> \o FormatUint(row)

\* the item types that have members, and the item types their members are of
MemberTypes(t) ==
    CASE t = "go_struct" -> {"go_field"}
      [] t = "go_interface" -> {"go_method_spec"}
      [] t = "go_const" -> {"go_spec"}
      [] t = "go_error" -> {"go_func", "go_comment"}
      [] t \in {"py_class", "py_private_class"} -> {"py_method", "py_private_method"}
      [] t = "py_error" -> {"py_func"}
      [] t \in {"py_outer_func", "py_if"} -> {"py_func", "py_class"}
      [] t = "py_outer_class" -> {"py_method", "py_class", "py_decorated", "py_if"}
      [] t = "java_class" -> {"java_method", "java_field"}
      [] t = "java_enum" -> {"java_constant"}
      [] t = "java_error" -> {"java_method"}
      [] t = "js_class" -> {"js_method"}
      [] t = "js_error" -> {"js_func"}
      [] t = "ts_class" -> {"ts_method"}
      [] t = "ts_interface" -> {"ts_property", "ts_signature"}
      [] t = "ts_error" -> {"ts_func"}
      [] t = "swift_class" -> {"swift_func", "swift_property"}
      [] t = "swift_enum" -> {"swift_entry", "swift_func"}
      [] t = "swift_error" -> {"swift_func"}
      [] t = "c_struct" -> {"c_field"}
      [] t \in {"c_ifdef", "c_error"} -> {"c_func"}
      [] t = "c_namespace" -> {"c_func", "c_class"}
      [] t = "c_class" -> {"c_member"}
      [] OTHER -> {}

RECURSIVE ForestsExact(_, _)
\* the forests over the item types `types` of exactly n items, members included
ForestsExact(types, n) ==
    IF n = 0 THEN {<<>>}
    ELSE UNION {
           UNION {
             {<<Desc(t, ms)>> \o rest :
                ms \in ForestsExact(MemberTypes(t), k),
                rest \in ForestsExact(types, n - 1 - k)}
             : k \in 0..(n - 1)}
           : t \in types}

ForestsUpTo(types, n) == UNION {ForestsExact(types, k) : k \in 0..n}

RECURSIVE Weight(_)
Weight(forest) ==
    IF forest = <<>> THEN 0
    ELSE 1 + Weight(Head(forest).m) + Weight(Tail(forest))

RECURSIVE ForestLines(_)

\* the lines an item takes: its own, its members' and its closing line
Lines(d) ==
    IF MemberTypes(d.t) # {} THEN 2 + ForestLines(d.m)
    ELSE IF d.t \in {"py_decorated", "js_export", "ts_export"} THEN 2
    ELSE 1

ForestLines(forest) ==
    IF forest = <<>> THEN 0 ELSE Lines(Head(forest)) + ForestLines(Tail(forest))

Ident(kind, row) == Leaf(kind, row, NameOf(row))

\* the items of the Go grammar
goItem(t, row, members) ==
    CASE t = "go_comment" ->
           Leaf("comment", row, <<"/", "/", " ", "doc">> \o FormatUint(row))
      [] t = "go_comment_sp" ->
           Leaf("comment", row, <<"/", "/", " ", "doc">> \o FormatUint(row) \o <<" ", "\t">>)
      [] t = "go_greet_comment" ->
           Leaf("comment", row,
                <<"/", "/", " ", "Greet", " ", "returns", " ", "a", " ", "greeting">>)
      [] t = "go_greet" ->
           Mk("function_declaration", row,
              <<"func", " ", "Greet", "(", "name", " ", "string", ")", " ", "string", " ",
                "{", "}">>,
              ("name" :> 2 @@ "parameters" :> 3 @@ "result" :> 4 @@ "body" :> 5),
              <<Anon("func", row), Leaf("identifier", row, <<"Greet">>),
                Leaf("parameter_list", row, <<"(", "name", " ", "string", ")">>),
                Leaf("type_identifier", row, <<"string">>),
                Leaf("block", row, <<"{", "}">>)>>)
      [] t = "go_package" ->
           Mk("package_clause", row, <<"package", " ">> \o NameOf(row), NoFields,
              <<Ident("package_identifier", row)>>)
      [] t = "go_import" ->
           Leaf("import_declaration", row, <<"import", " ", "\"", "fmt", "\"">>)
      [] t = "go_func" ->
           Mk("function_declaration", row, <<"func", " ">> \o NameOf(row) \o <<"(", ")">>,
              ("name" :> 2 @@ "parameters" :> 3 @@ "body" :> 4),
              <<Anon("func", row), Ident("identifier", row),
                Leaf("parameter_list", row, <<"(", ")">>),
                Leaf("block", row, <<"{", "}">>)>>)
      [] t = "go_method" ->
           Mk("method_declaration", row, <<"func">>,
              ("receiver" :> 2 @@ "name" :> 3 @@ "parameters" :> 4 @@ "result" :> 5),
              <<Anon("func", row),
                Leaf("parameter_list", row, <<"(", "r", " ", "T", ")">>),
                Ident("field_identifier", row),
                Leaf("parameter_list", row, <<"(", ")">>),
                Leaf("type_identifier", row, <<"error">>),
                Leaf("block", row, <<"{", "}">>)>>)
      [] t = "go_struct" ->
           Mk("type_declaration", row, <<"type">>, NoFields,
              <<Anon("type", row),
                Mk("type_spec", row, <<>>, ("name" :> 1 @@ "type" :> 2),
                   <<Ident("type_identifier", row),
                     Mk("struct_type", row, <<"struct">>, NoFields,
                        <<Anon("struct", row),
                          Mk("field_declaration_list", row, <<>>, NoFields, members)>>)>>)>>)
      [] t = "go_field" ->
           Mk("field_declaration", row, <<>>, ("name" :> 1 @@ "type" :> 2),
              <<Ident("field_identifier", row), Leaf("type_identifier", row, <<"int">>)>>)
      [] t = "go_interface" ->
           Mk("type_declaration", row, <<"type">>, NoFields,
              <<Anon("type", row),
                Mk("type_spec", row, <<>>, ("name" :> 1 @@ "type" :> 2),
                   <<Ident("type_identifier", row),
                     Mk("interface_type", row, <<"interface">>, NoFields,
                        <<Anon("interface", row),
                          Mk("method_spec_list", row, <<>>, NoFields, members)>>)>>)>>)
      [] t = "go_method_spec" ->
           Mk("method_spec", row, <<>>, ("name" :> 1 @@ "parameters" :> 2),
              <<Ident("field_identifier", row), Leaf("parameter_list", row, <<"(", ")">>)>>)
      [] t = "go_alias" ->
           Mk("type_declaration", row, <<"type">>, NoFields,
              <<Anon("type", row),
                Mk("type_spec", row, <<>>, ("name" :> 1 @@ "type" :> 2),
                   <<Ident("type_identifier", row),
                     Leaf("type_identifier", row, <<"int">>)>>)>>)
      [] t = "go_const" ->
           Mk("const_declaration", row, <<"const">>, NoFields,
              <<Anon("const", row)>> \o members)
      [] t = "go_spec" ->
           Mk("const_spec", row, <<>>, ("name" :> 1 @@ "value" :> 2),
              <<Ident("identifier", row), Leaf("int_literal", row, <<"1">>)>>)
      [] t = "go_var_func" ->
           Mk("var_declaration", row,
              <<"var", " ">> \o NameOf(row) \o <<" ", "=", " ", "func", "(", ")", " ">>
              \o SecretBody,
              NoFields,
              <<Anon("var", row),
                Mk("var_spec", row,
                   NameOf(row) \o <<" ", "=", " ", "func", "(", ")", " ">> \o SecretBody,
                   ("name" :> 1 @@ "value" :> 2),
                   <<Ident("identifier", row),
                     Mk("func_literal", row, <<"func", "(", ")", " ">> \o SecretBody,
                        ("parameters" :> 2 @@ "body" :> 3),
                        <<Anon("func", row), Leaf("parameter_list", row, <<"(", ")">>),
                          Leaf("block", row, SecretBody)>>)>>)>>)
      [] t = "go_error" ->
           Mk("ERROR", row, <<"}">>, NoFields, members)

\* a Python function or method called `name`
pyFunctionNode(row, name) ==
    Mk("function_definition", row, <<"def", " ">> \o name \o <<"(", ")", ":">>,
       ("name" :> 2 @@ "parameters" :> 3 @@ "body" :> 4),
       <<Anon("def", row), Leaf("identifier", row, name),
         Leaf("parameters", row, <<"(", ")">>),
         Leaf("block", row, <<"pass">>)>>)

pyClassNode(row, name, members) ==
    Mk("class_definition", row, <<"class", " ">> \o name \o <<":">>,
       ("name" :> 2 @@ "body" :> 3),
       <<Anon("class", row), Leaf("identifier", row, name),
         Mk("block", row, <<>>, NoFields, members)>>)

\* the items of the Python grammar
pyItem(t, row, members) ==
    CASE t \in {"py_func", "py_method"} -> pyFunctionNode(row, NameOf(row))
      [] t \in {"py_private_func", "py_private_method"} ->
           pyFunctionNode(row, <<"_">> \o NameOf(row))
      [] t = "py_class" -> pyClassNode(row, NameOf(row), members)
      [] t = "py_private_class" -> pyClassNode(row, <<"_">> \o NameOf(row), members)
      [] t = "py_import" -> Leaf("import_statement", row, <<"import", " ", "os">>)
      [] t = "py_decorated" ->
           Mk("decorated_definition", row, <<"@", "d">>, ("definition" :> 2),
              <<Leaf("decorator", row, <<"@", "d">>),
                pyFunctionNode(row + 1, NameOf(row + 1))>>)
      [] t = "py_error" -> Mk("ERROR", row, <<")">>, NoFields, members)
      [] t = "py_outer_class" -> pyClassNode(row, NameOf(row), members)
      [] t = "py_outer_func" ->
           Mk("function_definition", row, <<"def", " ">> \o NameOf(row) \o <<"(", ")", ":">>,
              ("name" :> 2 @@ "parameters" :> 3 @@ "body" :> 4),
              <<Anon("def", row), Leaf("identifier", row, NameOf(row)),
                Leaf("parameters", row, <<"(", ")">>),
                Mk("block", row + 1, <<>>, NoFields, members)>>)
      [] t = "py_if" ->
           Mk("if_statement", row, <<"if", " ", "x", ":">>,
              ("condition" :> 2 @@ "consequence" :> 3),
              <<Anon("if", row), Leaf("identifier", row, <<"x">>),
                Mk("block", row + 1, <<>>, NoFields, members)>>)

javaModifiersNode(row, word) ==
    Mk("modifiers", row, <<word>>, NoFields, <<Anon(word, row)>>)

\* the items of the Java grammar
javaItem(t, row, members) ==
    CASE t = "java_comment" ->
           Leaf("line_comment", row, <<"/", "/", " ", "doc">> \o FormatUint(row))
      [] t = "java_class" ->
           Mk("class_declaration", row, <<"public", " ", "class", " ">> \o NameOf(row),
              ("name" :> 3 @@ "body" :> 4),
              <<javaModifiersNode(row, "public"), Anon("class", row),
                Ident("identifier", row),
                Mk("class_body", row, <<>>, NoFields, members)>>)
      [] t = "java_method" ->
           Mk("method_declaration", row, <<"int", " ">> \o NameOf(row) \o <<"(", ")">>,
              ("type" :> 1 @@ "name" :> 2 @@ "parameters" :> 3 @@ "body" :> 4),
              <<Leaf("integral_type", row, <<"int">>), Ident("identifier", row),
                Leaf("formal_parameters", row, <<"(", ")">>),
                Leaf("block", row, <<"{", "}">>)>>)
      [] t = "java_bare_method" ->
           Mk("method_declaration", row, NameOf(row) \o <<" ", "{", "}">>,
              ("name" :> 1 @@ "body" :> 2),
              <<Ident("identifier", row), Leaf("block", row, <<"{", "}">>)>>)
      [] t = "java_field" ->
           Mk("field_declaration", row, <<"private", " ", "int", " ">> \o NameOf(row) \o <<";">>,
              ("type" :> 2 @@ "declarator" :> 3),
              <<javaModifiersNode(row, "private"), Leaf("integral_type", row, <<"int">>),
                Mk("variable_declarator", row, NameOf(row), ("name" :> 1),
                   <<Ident("identifier", row)>>),
                Anon(";", row)>>)
      [] t = "java_enum" ->
           Mk("enum_declaration", row, <<"enum", " ">> \o NameOf(row),
              ("name" :> 2 @@ "body" :> 3),
              <<Anon("enum", row), Ident("identifier", row),
                Mk("enum_body", row, <<>>, NoFields, members)>>)
      [] t = "java_constant" ->
           Mk("enum_constant", row, NameOf(row), ("name" :> 1), <<Ident("identifier", row)>>)
      [] t = "java_error" -> Mk("ERROR", row, <<"}">>, NoFields, members)

\* a JavaScript or TypeScript function: TypeScript gives it a return type
jsFunctionNode(row, typed) ==
    Mk("function_declaration", row,
       <<"function", " ">> \o NameOf(row) \o <<"(", ")">>,
       IF typed
       THEN ("name" :> 2 @@ "parameters" :> 3 @@ "return_type" :> 4 @@ "body" :> 5)
       ELSE ("name" :> 2 @@ "parameters" :> 3 @@ "body" :> 4),
       <<Anon("function", row), Ident("identifier", row),
         Leaf("formal_parameters", row, <<"(", ")">>)>>
       \o (IF typed THEN <<Leaf("type_annotation", row, <<":", " ", "void">>)>> ELSE <<>>)
       \o <<Leaf("statement_block", row, <<"{", "}">>)>>)

jsCommentNode(row) == Leaf("comment", row, <<"/", "/", " ", "doc">> \o FormatUint(row))

jsClassNode(row, members) ==
    Mk("class_declaration", row, <<"class", " ">> \o NameOf(row),
       ("name" :> 2 @@ "body" :> 3),
       <<Anon("class", row), Ident("type_identifier", row),
         Mk("class_body", row, <<>>, NoFields, members)>>)

jsMethodNode(row) ==
    Mk("method_definition", row, NameOf(row) \o <<"(", ")">>,
       ("name" :> 1 @@ "parameters" :> 2 @@ "body" :> 3),
       <<Ident("property_identifier", row),
         Leaf("formal_parameters", row, <<"(", ")">>),
         Leaf("statement_block", row, <<"{", "}">>)>>)

\* a method with a private name, `#n1() {}`
jsPrivateMethodNode(row) ==
    Mk("method_definition", row, <<"#">> \o NameOf(row) \o <<"(", ")">>,
       ("name" :> 1 @@ "parameters" :> 2 @@ "body" :> 3),
       <<Leaf("private_property_identifier", row, <<"#">> \o NameOf(row)),
         Leaf("formal_parameters", row, <<"(", ")">>),
         Leaf("statement_block", row, <<"{", "}">>)>>)

\* `export` on one line and the exported function on the next
jsExportNode(row, typed) ==
    Mk("export_statement", row,
       <<"export", "\n", "function", " ">> \o NameOf(row + 1) \o <<"(", ")">>,
       ("declaration" :> 2),
       <<Anon("export", row), jsFunctionNode(row + 1, typed)>>)

\* the items of the JavaScript grammar
jsItem(t, row, members) ==
    CASE t = "js_comment" -> jsCommentNode(row)
      [] t = "js_func" -> jsFunctionNode(row, FALSE)
      [] t = "js_class" -> jsClassNode(row, members)
      [] t = "js_method" -> jsMethodNode(row)
      [] t = "js_private_method" -> jsPrivateMethodNode(row)
      [] t = "js_export" -> jsExportNode(row, FALSE)
      [] t = "js_error" -> Mk("ERROR", row, <<"}">>, NoFields, members)

\* the items of the TypeScript grammar
tsItem(t, row, members) ==
    CASE t = "ts_comment" -> jsCommentNode(row)
      [] t = "ts_func" -> jsFunctionNode(row, TRUE)
      [] t = "ts_class" -> jsClassNode(row, members)
      [] t = "ts_method" -> jsMethodNode(row)
      [] t = "ts_private_method" -> jsPrivateMethodNode(row)
      [] t = "ts_export" -> jsExportNode(row, TRUE)
      [] t = "ts_export_clause" ->
           Mk("export_statement", row, <<"export", " ", "{", " ">> \o NameOf(row) \o <<" ", "}">>,
              NoFields,
              <<Anon("export", row),
                Mk("export_clause", row, <<"{", " ">> \o NameOf(row) \o <<" ", "}">>, NoFields,
                   <<Mk("export_specifier", row, NameOf(row), ("name" :> 1),
                        <<Ident("identifier", row)>>)>>)>>)
      [] t = "ts_export_default" ->
           Mk("export_statement", row,
              <<"export", " ", "default", " ", "function", "(", ")", " ">> \o SecretBody,
              ("value" :> 3),
              <<Anon("export", row), Anon("default", row),
                Mk("function_expression", row, <<"function", "(", ")", " ">> \o SecretBody,
                   ("parameters" :> 2 @@ "body" :> 3),
                   <<Anon("function", row), Leaf("formal_parameters", row, <<"(", ")">>),
                     Leaf("statement_block", row, SecretBody)>>)>>)
      [] t = "ts_interface" ->
           Mk("interface_declaration", row, <<"interface", " ">> \o NameOf(row),
              ("name" :> 2 @@ "body" :> 3),
              <<Anon("interface", row), Ident("type_identifier", row),
                Mk("interface_body", row, <<>>, NoFields, members)>>)
      [] t = "ts_property" ->
           Mk("property_signature", row, NameOf(row) \o <<":", " ", "string">>,
              ("name" :> 1 @@ "type" :> 2),
              <<Ident("property_identifier", row),
                Leaf("type_annotation", row, <<":", " ", "string">>)>>)
      [] t = "ts_signature" ->
           Mk("method_signature", row, NameOf(row) \o <<"(", ")">>,
              ("name" :> 1 @@ "parameters" :> 2),
              <<Ident("property_identifier", row),
                Leaf("formal_parameters", row, <<"(", ")">>)>>)
      [] t = "ts_error" -> Mk("ERROR", row, <<"}">>, NoFields, members)

swiftFunctionNode(row) ==
    Mk("function_declaration", row, <<"func", " ">> \o NameOf(row) \o <<"(", ")">>,
       ("name" :> 2 @@ "body" :> 3),
       <<Anon("func", row), Ident("simple_identifier", row),
         Leaf("function_body", row, <<"{", "}">>)>>)

\* the items of the Swift grammar; an enum is a class_declaration whose body
\* is an enum_class_body
swiftItem(t, row, members) ==
    CASE t = "swift_comment" ->
           Leaf("comment", row, <<"/", "/", " ", "doc">> \o FormatUint(row))
      [] t = "swift_func" -> swiftFunctionNode(row)
      [] t = "swift_class" ->
           Mk("class_declaration", row, <<"class", " ">> \o NameOf(row) \o <<" ", "{", "}">>,
              ("name" :> 2 @@ "body" :> 3),
              <<Anon("class", row), Ident("type_identifier", row),
                Mk("class_body", row, <<>>, NoFields, members)>>)
      [] t = "swift_property" ->
           Mk("property_declaration", row, <<"var", " ">> \o NameOf(row) \o <<":", " ", "Int">>,
              ("name" :> 2),
              <<Anon("var", row),
                Mk("pattern", row, NameOf(row), NoFields, <<Ident("simple_identifier", row)>>),
                Mk("type_annotation", row, <<":", " ", "Int">>, NoFields,
                   <<Anon(":", row),
                     Mk("user_type", row, <<"Int">>, NoFields,
                        <<Leaf("type_identifier", row, <<"Int">>)>>)>>)>>)
      [] t = "swift_enum" ->
           Mk("class_declaration", row, <<"enum", " ">> \o NameOf(row) \o <<" ", "{", "}">>,
              ("name" :> 2 @@ "body" :> 3),
              <<Anon("enum", row), Ident("type_identifier", row),
                Mk("enum_class_body", row, <<>>, NoFields, members)>>)
      [] t = "swift_entry" ->
           Mk("enum_entry", row, <<"case", " ">> \o NameOf(row), ("name" :> 2),
              <<Anon("case", row), Ident("simple_identifier", row)>>)
      [] t = "swift_error" -> Mk("ERROR", row, <<"}">>, NoFields, members)

cFunctionNode(row) ==
    Mk("function_definition", row, <<"int", " ">> \o NameOf(row) \o <<"(", ")", " ", "{", "}">>,
       ("type" :> 1 @@ "declarator" :> 2 @@ "body" :> 3),
       <<Leaf("primitive_type", row, <<"int">>),
         Mk("function_declarator", row, NameOf(row) \o <<"(", ")">>,
            ("declarator" :> 1 @@ "parameters" :> 2),
            <<Ident("identifier", row), Leaf("parameter_list", row, <<"(", ")">>)>>),
         Leaf("compound_statement", row, <<"{", "}">>)>>)

\* the items of the C and C++ grammars
cItem(t, row, members) ==
    CASE t = "c_comment" ->
           Leaf("comment", row, <<"/", "/", " ", "doc">> \o FormatUint(row))
      [] t = "c_func" -> cFunctionNode(row)
      [] t = "c_struct" ->
           Mk("struct_specifier", row, <<"struct", " ">> \o NameOf(row),
              ("name" :> 2 @@ "body" :> 3),
              <<Anon("struct", row), Ident("type_identifier", row),
                Mk("field_declaration_list", row, <<>>, NoFields, members)>>)
      [] t = "c_field" ->
           Mk("field_declaration", row, <<"int", " ">> \o NameOf(row) \o <<";">>,
              ("type" :> 1 @@ "declarator" :> 2),
              <<Leaf("primitive_type", row, <<"int">>), Ident("field_identifier", row),
                Anon(";", row)>>)
      [] t = "c_ifdef" ->
           Mk("preproc_ifdef", row, <<"#", "ifdef", " ", "X">>, ("name" :> 2),
              <<Anon("#ifdef", row), Leaf("identifier", row, <<"X">>)>> \o members)
      [] t = "c_namespace" ->
           Mk("namespace_definition", row, <<"namespace", " ">> \o NameOf(row),
              ("name" :> 2 @@ "body" :> 3),
              <<Anon("namespace", row), Ident("namespace_identifier", row),
                Mk("declaration_list", row, <<>>, NoFields, members)>>)
      [] t = "c_class" ->
           Mk("class_specifier", row, <<"class", " ">> \o NameOf(row),
              ("name" :> 2 @@ "body" :> 3),
              <<Anon("class", row), Ident("type_identifier", row),
                Mk("field_declaration_list", row, <<>>, NoFields, members)>>)
      [] t = "c_member" ->
           Mk("declaration", row, <<"void", " ">> \o NameOf(row) \o <<"(", ")", ";">>,
              ("type" :> 1 @@ "declarator" :> 2),
              <<Leaf("primitive_type", row, <<"void">>),
                Mk("function_declarator", row, NameOf(row) \o <<"(", ")">>,
                   ("declarator" :> 1 @@ "parameters" :> 2),
                   <<Ident("field_identifier", row),
                     Leaf("parameter_list", row, <<"(", ")">>)>>),
                Anon(";", row)>>)
      [] t = "c_template" ->
           Mk("template_declaration", row,
              <<"template", " ", "<", "typename", " ", "T", ">", " ">> \o cFunctionNode(row).text,
              ("parameters" :> 2),
              <<Anon("template", row),
                Leaf("template_parameter_list", row, <<"<", "typename", " ", "T", ">">>),
                cFunctionNode(row)>>)
      [] t = "c_error" -> Mk("ERROR", row, <<"}">>, NoFields, members)

GoItems ==
    {"go_comment", "go_comment_sp", "go_greet_comment", "go_greet", "go_package", "go_import", "go_func", "go_method", "go_struct", "go_field",
     "go_interface", "go_method_spec", "go_alias", "go_const", "go_spec", "go_var_func",
     "go_error"}

PyItems ==
    {"py_func", "py_method", "py_private_func", "py_private_method", "py_class",
     "py_private_class", "py_import", "py_decorated", "py_error", "py_outer_func",
     "py_outer_class", "py_if"}

JavaItems ==
    {"java_comment", "java_class", "java_method", "java_bare_method", "java_field", "java_enum",
     "java_constant",
     "java_error"}

JsItems ==
    {"js_comment", "js_func", "js_class", "js_method", "js_private_method", "js_export",
     "js_error"}

TsItems ==
    {"ts_comment", "ts_func", "ts_class", "ts_method", "ts_private_method", "ts_export",
     "ts_export_clause", "ts_export_default",
     "ts_interface", "ts_property", "ts_signature", "ts_error"}

SwiftItems ==
    {"swift_comment", "swift_func", "swift_class", "swift_property", "swift_enum",
     "swift_entry", "swift_error"}

RECURSIVE BuildItem(_, _)
RECURSIVE BuildForest(_, _)

\* the nodes of a forest whose first item starts on `row`; a blank line is no node
BuildForest(forest, row) ==
    IF forest = <<>> THEN <<>>
    ELSE (IF Head(forest).t = "blank" THEN <<>> ELSE <<BuildItem(Head(forest), row)>>)
         \o BuildForest(Tail(forest), row + Lines(Head(forest)))

BuildItem(d, row) ==
    LET members == BuildForest(d.m, row + 1)
    IN CASE d.t \in GoItems -> goItem(d.t, row, members)
         [] d.t \in PyItems -> pyItem(d.t, row, members)
         [] d.t \in JavaItems -> javaItem(d.t, row, members)
         [] d.t \in JsItems -> jsItem(d.t, row, members)
         [] d.t \in TsItems -> tsItem(d.t, row, members)
         [] d.t \in SwiftItems -> swiftItem(d.t, row, members)
         [] OTHER -> cItem(d.t, row, members)

\* the root node of each grammar
RootKind(lang) ==
    CASE lang = "go" -> "source_file"
      [] lang = "python" -> "module"
      [] lang \in {"java", "javascript", "typescript", "tsx"} -> "program"
      [] lang = "swift" -> "source_file"
      [] lang \in {"c", "cpp"} -> "translation_unit"
      [] OTHER -> "none"

BuildRoot(lang, forest, firstRow) ==
    Mk(RootKind(lang), 0, <<>>, NoFields, BuildForest(forest, firstRow))

\* the items a source text of each language is made of at its top level
TopTypes(lang) ==
    CASE lang = "go" -> {"go_comment", "go_func", "go_struct", "go_const", "go_error"}
      [] lang = "python" -> {"py_func", "py_private_func", "py_class", "py_decorated", "py_error"}
      [] lang = "java" -> {"java_comment", "java_class", "java_enum", "java_error"}
      [] lang = "javascript" -> {"js_comment", "js_func", "js_class", "js_export", "js_error"}
      [] lang \in {"typescript", "tsx"} ->
           {"ts_comment", "ts_func", "ts_interface", "ts_export", "ts_error"}
      [] lang = "swift" -> {"swift_comment", "swift_func", "swift_enum", "swift_error"}
      [] lang = "c" -> {"c_comment", "c_func", "c_struct", "c_ifdef", "c_error"}
      [] lang = "cpp" -> {"c_comment", "c_func", "c_namespace", "c_error"}
      [] OTHER -> {}

----------------------------------------------------------------------------
(* outline.go *)

\* the tags createParserForLanguage has a grammar for
ParserTags == {"go", "java", "javascript", "swift", "typescript", "tsx", "python"}

createParserForLanguage(lang) ==
    IF lang \in ParserTags THEN "nil" ELSE "unsupported language"

\* the parsers and trees open after one more call of ExtractOutline: the
\* parser is made before the tag is looked at, the tree when the tag has a
\* grammar, and neither is closed on any path
Opened(o, lang) ==
    [parsers |-> o.parsers + 1,
     trees |-> o.trees + (IF createParserForLanguage(lang) = "nil" THEN 1 ELSE 0)]

\* the tags ExtractOutline dispatches to an adapter
Registered == {"go", "java", "javascript", "swift", "typescript", "python"}

\* the adapter ExtractOutline dispatches a registered tag to
Adapter(lang, tree) ==
    CASE lang = "go" -> ExtractGoOutline(tree)
      [] lang = "java" -> ExtractJavaOutline(tree)
      [] lang = "javascript" -> ExtractJSOutline(tree)
      [] lang = "swift" -> ExtractSwiftOutline(tree)
      [] lang = "typescript" -> ExtractTSOutline(tree)
      [] lang = "python" -> ExtractPythonOutline(tree)

\* an extraction that answers a tag without adapter with no text and no error
ExtractOutlineOrSilence(lang, tree) ==
    IF lang \in Registered THEN <<Adapter(lang, tree), "nil">> ELSE <<<<>>, "nil">>

\* the value ExtractOutline returns: <<text, error>>
ExtractOutlineValue(lang, tree) ==
    IF createParserForLanguage(lang) # "nil"
    THEN <<<<>>, "error creating parser: unsupported language">>
    ELSE IF lang \in Registered THEN <<Adapter(lang, tree), "nil">>
    ELSE <<<<>>, "unsupported language">>

\* an extraction whose builder is kept from one call to the next
ExtractOutlineKeepingBuilder(past, lang, tree) ==
    LET alone == ExtractOutlineValue(lang, tree)
    IN IF past = <<>> THEN alone
       ELSE <<past[Len(past)].result \o alone[1], alone[2]>>

\* what ExtractOutline returns after the calls `past` of the same process:
\* the parser, the tree and the builder are made anew in every call and
\* nothing of an earlier call is kept
ExtractOutlineAfter(past, lang, tree) == ExtractOutlineValue(lang, tree)

\* a builder that all calls write to
SharedBuilder(p) == 1

\* the builder a call writes to: its own, made when the adapter starts
BuilderOf(p) == p

----------------------------------------------------------------------------
(* detector.go *)

\* strings.ToLower on the symbols that file names are written with
LowerOf == ("GO" :> "go" @@ "Go" :> "go" @@ "PY" :> "py" @@ "TSX" :> "tsx" @@ "Java" :> "java")

ToLower(s) == [i \in 1..Len(s) |-> IF s[i] \in DOMAIN LowerOf THEN LowerOf[s[i]] ELSE s[i]]

RECURSIVE ExtFrom(_, _)
\* the loop of filepath.Ext: from the end of the path back to the first dot,
\* giving up at a path separator
ExtFrom(path, i) ==
    IF i < 1 \/ path[i] = "/" THEN <<>>
    ELSE IF path[i] = "." THEN SubSeq(path, i, Len(path))
    ELSE ExtFrom(path, i - 1)

Ext(path) == ExtFrom(path, Len(path))

\* a table in which the extension .hpp is listed for C as well as for C++
SupportedLanguagesSharedHeader ==
    [go |-> [Name |-> "go", Extensions |-> <<<<".", "go">>>>],
     java |-> [Name |-> "java", Extensions |-> <<<<".", "java">>>>],
     javascript |-> [Name |-> "javascript", Extensions |-> <<<<".", "js">>, <<".", "jsx">>>>],
     typescript |-> [Name |-> "typescript", Extensions |-> <<<<".", "ts">>>>],
     tsx |-> [Name |-> "tsx", Extensions |-> <<<<".", "tsx">>>>],
     python |-> [Name |-> "python", Extensions |-> <<<<".", "py">>>>],
     swift |-> [Name |-> "swift", Extensions |-> <<<<".", "swift">>>>],
     c |-> [Name |-> "c", Extensions |-> <<<<".", "c">>, <<".", "h">>, <<".", "hpp">>>>],
     cpp |-> [Name |-> "cpp",
              Extensions |-> <<<<".", "cpp">>, <<".", "cxx">>, <<".", "cc">>, <<".", "hpp">>,
                               <<".", "hxx">>, <<".", "hh">>>>]]

SupportedLanguages ==
    [go |-> [Name |-> "go", Extensions |-> <<<<".", "go">>>>],
     java |-> [Name |-> "java", Extensions |-> <<<<".", "java">>>>],
     javascript |-> [Name |-> "javascript", Extensions |-> <<<<".", "js">>, <<".", "jsx">>>>],
     typescript |-> [Name |-> "typescript", Extensions |-> <<<<".", "ts">>>>],
     tsx |-> [Name |-> "tsx", Extensions |-> <<<<".", "tsx">>>>],
     python |-> [Name |-> "python", Extensions |-> <<<<".", "py">>>>],
     swift |-> [Name |-> "swift", Extensions |-> <<<<".", "swift">>>>],
     c |-> [Name |-> "c", Extensions |-> <<<<".", "c">>, <<".", "h">>>>],
     cpp |-> [Name |-> "cpp",
              Extensions |-> <<<<".", "cpp">>, <<".", "cxx">>, <<".", "cc">>, <<".", "hpp">>,
                               <<".", "hxx">>, <<".", "hh">>>>]]

\* what DetectLanguage can return for a path, as <<tag, ok>>: the map of the
\* languages is walked in an order that differs from run to run, and the
\* first language that lists the extension is returned
DetectLanguage(filePath) ==
    LET ext == ToLower(Ext(filePath))
        found == {l \in DOMAIN SupportedLanguages :
                    \E k \in 1..Len(SupportedLanguages[l].Extensions) :
                       SupportedLanguages[l].Extensions[k] = ext}
    IN IF found = {} THEN {<<"", FALSE>>} ELSE {<<l, TRUE>> : l \in found}

----------------------------------------------------------------------------
(* cli.go and server.go *)

\* the text of an error of ExtractOutline for a language tag
ErrorText(e, lang) ==
    CASE e = "unsupported language" -> <<"unsupported", " ", "language", ":", " ", lang>>
      [] e = "error creating parser: unsupported language" ->
           <<"error", " ", "creating", " ", "parser", ":", " ", "unsupported", " ",
             "language", ":", " ", lang>>
      [] OTHER -> <<>>

\* the text os.Stat and os.ReadFile give for a failure at a path
PathError(op, path, why) == <<op, " ">> \o path \o <<":", " ", why>>

\* "Language: %s\n\n%s"
Formatted(lang, text) == <<"Language", ":", " ", lang, "\n", "\n">> \o text

\* what a call of cli.Run leaves: the returned error, the text printed, the
\* tag ExtractOutline was called with, whether DetectLanguage was called
RunEnd(e, out, t, c) == [err |-> e, out |-> out, tag |-> t, consulted |-> c]

\* a choice of language that asks the detector first and falls back on the
\* override
RunLanguageDetectorFirst(filePath, languageOverride) ==
    {IF d[2] \/ languageOverride = "" THEN <<d[1], d[2], TRUE>>
     ELSE <<languageOverride, TRUE, TRUE>>
     : d \in DetectLanguage(filePath)}

\* the language of Run: the override, or what the detector says
RunLanguage(filePath, languageOverride) ==
    IF languageOverride # "" THEN {<<languageOverride, TRUE, FALSE>>}
    ELSE {<<d[1], d[2], TRUE>> : d \in DetectLanguage(filePath)}

\* a Run that settles the language before it looks at the file
RunLanguageBeforeFile(arguments, stat, languageOverride, tree) ==
    IF Len(arguments) # 1 THEN {RunEnd("usage", <<>>, "none", FALSE)}
    ELSE {IF ~l[2] THEN RunEnd("unsupported file extension", <<>>, "none", l[3])
          ELSE IF stat = "missing" THEN RunEnd("file not found", <<>>, "none", l[3])
          ELSE IF stat = "dir" THEN RunEnd("expected a file, got directory", <<>>, "none", l[3])
          ELSE IF stat = "unreadable" THEN RunEnd("error reading file", <<>>, "none", l[3])
          ELSE LET v == ExtractOutlineValue(l[1], tree)
               IN IF v[2] # "nil" THEN RunEnd("error extracting outline", <<>>, l[1], l[3])
                  ELSE RunEnd("nil", Formatted(l[1], v[1]), l[1], l[3])
          : l \in RunLanguage(arguments[1], languageOverride)}

\* the ways a call of cli.Run can end
Run(arguments, stat, languageOverride, tree) ==
    IF Len(arguments) # 1 THEN {RunEnd("usage", <<>>, "none", FALSE)}
    ELSE IF stat = "missing" THEN {RunEnd("file not found", <<>>, "none", FALSE)}
    ELSE IF stat = "dir" THEN {RunEnd("expected a file, got directory", <<>>, "none", FALSE)}
    ELSE IF stat = "unreadable" THEN {RunEnd("error reading file", <<>>, "none", FALSE)}
    ELSE {IF ~l[2] THEN RunEnd("unsupported file extension", <<>>, "none", l[3])
          ELSE LET v == ExtractOutlineValue(l[1], tree)
               IN IF v[2] # "nil" THEN RunEnd("error extracting outline", <<>>, l[1], l[3])
                  ELSE RunEnd("nil", Formatted(l[1], v[1]), l[1], l[3])
          : l \in RunLanguage(arguments[1], languageOverride)}

\* a tool result whose failure is also returned as a Go error
ToolEndWithError(flag, text, t) ==
    [err |-> IF flag THEN "error" ELSE "nil", isError |-> flag, text |-> text, tag |-> t]

\* what a call of OutlineToolHandler leaves: the Go error, the tool result
\* (its IsError flag and its text), the tag ExtractOutline was called with
ToolEnd(flag, text, t) == [err |-> "nil", isError |-> flag, text |-> text, tag |-> t]

\* the ways a call of OutlineToolHandler can end
OutlineToolHandler(filePath, stat, tree) ==
    IF stat = "missing"
    THEN {ToolEnd(TRUE, <<"Error", ":", " ", "file", " ", "not", " ", "found", ":", " ">>
                        \o PathError("stat", filePath, "ENOENT"), "none")}
    ELSE IF stat = "dir"
    THEN {ToolEnd(TRUE, <<"Error", ":", " ", "expected", " ", "a", " ", "file", ",", " ",
                          "got", " ", "directory">>, "none")}
    ELSE IF stat = "unreadable"
    THEN {ToolEnd(TRUE, <<"Error", " ", "reading", " ", "file", ":", " ">>
                        \o PathError("open", filePath, "EACCES"), "none")}
    ELSE {IF ~d[2]
          THEN ToolEnd(TRUE, <<"Error", ":", " ", "unsupported", " ", "file", " ",
                               "extension">>, "none")
          ELSE LET v == ExtractOutlineValue(d[1], tree)
               IN IF v[2] # "nil"
                  THEN ToolEnd(TRUE, <<"Error", " ", "extracting", " ", "outline", ":", " ">>
                                     \o ErrorText(v[2], d[1]), d[1])
                  ELSE ToolEnd(FALSE, Formatted(d[1], v[1]), d[1])
          : d \in DetectLanguage(filePath)}

----------------------------------------------------------------------------
(* One call on one source text.  `content` is the source text as the forest  *)
(* of its items, `root` the syntax tree the grammar of `language` gives for  *)
(* it, `call` the entry point that was called, `result` and `err` what it    *)
(* returned.                                                                *)

\* the tags a caller can pass: the detector's tags and two it does not know
Tags ==
    {"go", "java", "javascript", "typescript", "tsx", "python", "swift", "c", "cpp",
     "rust", ""}

Sources(lang, n) == ForestsUpTo(TopTypes(lang), n)

Init ==
    /\ language \in Tags
    /\ content \in Sources(language, MaxTop)
    /\ root = BuildRoot(language, content, 0)
    /\ call = "none"
    /\ target = <<>>
    /\ result = <<>>
    /\ err = "nil"
    /\ pc = "ready"
    /\ Idle

ExtractOutline ==
    /\ pc = "ready"
    /\ call' = "ExtractOutline"
    /\ result' = ExtractOutlineValue(language, root)[1]
    /\ err' = ExtractOutlineValue(language, root)[2]
    /\ pc' = "done"
    /\ open' = Opened(open, language)
    /\ UNCHANGED <<language, content, root, target, aside>>

\* the C adapters are called on a tree the caller parsed
CallExtractCOutline ==
    /\ pc = "ready"
    /\ language = "c"
    /\ call' = "ExtractCOutline"
    /\ result' = ExtractCOutline(root)
    /\ err' = "nil"
    /\ pc' = "done"
    /\ UNCHANGED <<language, content, root, target, aside, open>>

CallExtractCppOutline ==
    /\ pc = "ready"
    /\ language = "cpp"
    /\ call' = "ExtractCppOutline"
    /\ result' = ExtractCppOutline(root)
    /\ err' = "nil"
    /\ pc' = "done"
    /\ UNCHANGED <<language, content, root, target, aside, open>>

Next == ExtractOutline \/ CallExtractCOutline \/ CallExtractCppOutline

Spec == Init /\ [][Next]_vars

----------------------------------------------------------------------------
(* Go source texts with comments, blank lines and the function of the       *)
(* README's greeting example; findDocComment is applied to every node that  *)
(* is no comment, the root included.                                        *)

DocTypes ==
    {"go_comment", "go_comment_sp", "blank", "go_func", "go_greet_comment", "go_greet"}

InitDoc ==
    /\ language = "go"
    /\ content \in ForestsUpTo(DocTypes, MaxDoc)
    /\ root = BuildRoot(language, content, 0)
    /\ call = "none"
    /\ target = <<>>
    /\ result = <<>>
    /\ err = "nil"
    /\ pc = "ready"
    /\ Idle

CallExtractGoOutline ==
    /\ pc = "ready"
    /\ call' = "ExtractGoOutline"
    /\ result' = ExtractGoOutline(root)
    /\ err' = "nil"
    /\ pc' = "done"
    /\ UNCHANGED <<language, content, root, target, aside, open>>

CallFindDocComment ==
    /\ pc = "ready"
    /\ \E n \in {<<>>} \cup {<<i>> : i \in 1..Len(root.kids)} :
          /\ ~IsCommentKind(Kind(root, n))
          /\ target' = n
          /\ result' = findDocComment(root, n)
    /\ call' = "findDocComment"
    /\ err' = "nil"
    /\ pc' = "done"
    /\ UNCHANGED <<language, content, root, aside, open>>

NextDoc == CallExtractGoOutline \/ CallFindDocComment

SpecDoc == InitDoc /\ [][NextDoc]_vars

----------------------------------------------------------------------------
(* Python source texts: functions and classes, public and underscore-named, *)
(* with public and underscore-named methods.                                *)

PyTypes == {"py_func", "py_private_func", "py_class", "py_private_class"}

InitPy ==
    /\ language = "python"
    /\ content \in ForestsUpTo(PyTypes, MaxPy)
    /\ root = BuildRoot(language, content, 0)
    /\ call = "none"
    /\ target = <<>>
    /\ result = <<>>
    /\ err = "nil"
    /\ pc = "ready"
    /\ Idle

CallExtractPythonOutline ==
    /\ pc = "ready"
    /\ call' = "ExtractPythonOutline"
    /\ result' = ExtractPythonOutline(root)
    /\ err' = "nil"
    /\ pc' = "done"
    /\ UNCHANGED <<language, content, root, target, aside, open>>

NextPy == CallExtractPythonOutline

SpecPy == InitPy /\ [][NextPy]_vars

----------------------------------------------------------------------------
(* One file handed to the command line or to the tool of the server.  The   *)
(* file's text is written in the language it is going to be parsed as.      *)

Paths ==
    {<<"main", ".", "go">>, <<"App", ".", "Java">>, <<"a", ".", "js">>, <<"x", ".", "tsx">>,
     <<"lib", ".", "d", ".", "ts">>, <<"m", ".", "PY">>, <<"v", ".", "swift">>,
     <<"k", ".", "c">>, <<"k", ".", "hpp">>, <<"script", ".", "txt">>, <<"Makefile">>,
     <<"pkg", ".", "go", "/", "README">>}

Overrides == {"", "go", "python", "tsx", "rust"}

\* none, one or two file arguments
Arguments == {<<>>} \cup {<<p>> : p \in Paths} \cup {<<<<"main", ".", "go">>, p>> : p \in Paths}

InitFile ==
    /\ args \in Arguments
    /\ disk \in {"file", "missing", "dir", "unreadable"}
    /\ override \in Overrides
    /\ language \in (IF override # "" THEN {override}
                     ELSE IF args = <<>> THEN {""}
                     ELSE {d[1] : d \in DetectLanguage(args[1])})
    /\ content \in Sources(language, MaxFile)
    /\ root = BuildRoot(language, content, 0)
    /\ call = "none"
    /\ target = <<>>
    /\ result = <<>>
    /\ err = "nil"
    /\ pc = "ready"
    /\ tag = "none"
    /\ consulted = FALSE
    /\ isError = FALSE
    /\ history = <<>>
    /\ procs = <<>>
    /\ builders = <<>>
    /\ open = NoneOpen
    /\ argv = <<>>

CallRun ==
    /\ pc = "ready"
    /\ \E e \in Run(args, disk, override, root) :
          /\ err' = e.err
          /\ result' = e.out
          /\ tag' = e.tag
          /\ consulted' = e.consulted
          /\ open' = IF e.tag = "none" THEN open ELSE Opened(open, e.tag)
    /\ isError' = FALSE
    /\ call' = "Run"
    /\ pc' = "done"
    /\ UNCHANGED <<language, content, root, target, args, disk, override, history, procs,
                   builders, argv>>

\* the tool is handed one path and no language
CallOutlineToolHandler ==
    /\ pc = "ready"
    /\ Len(args) = 1
    /\ override = ""
    /\ \E e \in OutlineToolHandler(args[1], disk, root) :
          /\ err' = e.err
          /\ isError' = e.isError
          /\ result' = e.text
          /\ tag' = e.tag
          /\ open' = IF e.tag = "none" THEN open ELSE Opened(open, e.tag)
    /\ consulted' = (disk = "file")
    /\ call' = "OutlineToolHandler"
    /\ pc' = "done"
    /\ UNCHANGED <<language, content, root, target, args, disk, override, history, procs,
                   builders, argv>>

NextFile == CallRun \/ CallOutlineToolHandler

SpecFile == InitFile /\ [][NextFile]_vars

----------------------------------------------------------------------------
(* What the claims speak of. *)

Done(entry) == pc = "done" /\ call = entry

Digits == {"0", "1", "2", "3", "4", "5", "6", "7", "8", "9"}

\* `word` occurs in s and no digit follows it: n1 is not found in n12
Mentions(s, word) ==
    \E i \in 1..(Len(s) - Len(word) + 1) :
       /\ SubSeq(s, i, i + Len(word) - 1) = word
       /\ (i + Len(word) > Len(s) \/ s[i + Len(word)] \notin Digits)

\* the children of the root: every one of them is a named node
Top == root.kids

OutputLines == SplitLines(result)

----------------------------------------------------------------------------
(* The greeting example of the Go adapter. *)

GreetComment == <<"/", "/", " ", "Greet", " ", "returns", " ", "a", " ", "greeting">>

GreetHeader == <<"func", " ", "Greet", "(", "name", " ", "string", ")", " ", "string">>

\* the positions, among the root's children, of a Greet function whose
\* comment is on the line directly above it
GreetPositions ==
    {i \in 2..Len(Top) :
       /\ Top[i].kind = "function_declaration"
       /\ HasPrefix(Top[i].text, GreetHeader)
       /\ Top[i - 1].kind = "comment"
       /\ Top[i - 1].text = GreetComment
       /\ Top[i - 1].row + 1 = Top[i].row}

GreetLine(i) == <<"line", " ">> \o FormatUint(Top[i].row + 1)

\* C1: for a Go source in which `func Greet(name string) string` is directly
\* preceded by the comment `// Greet returns a greeting`, the output of
\* ExtractGoOutline has a line that begins with `// Greet returns a greeting`,
\* and the next line contains `func Greet(name string) string` and ends with
\* the annotation of the function's line.
C1_GreetIsDocumented ==
    Done("ExtractGoOutline") =>
       \A i \in GreetPositions :
          \E k \in 1..(Len(OutputLines) - 1) :
             /\ HasPrefix(OutputLines[k], GreetComment)
             /\ Contains(OutputLines[k + 1], GreetHeader)
             /\ HasSuffix(OutputLines[k + 1], GreetLine(i))

\* the example is run and its comment comes out behind a second marker
C1_GreetMarkerDoubled ==
    /\ Done("ExtractGoOutline")
    /\ \E i \in GreetPositions :
          \E k \in 1..(Len(OutputLines) - 1) :
             /\ OutputLines[k] = <<"/", "/", " ">> \o GreetComment
             /\ Contains(OutputLines[k + 1], GreetHeader)
             /\ HasSuffix(OutputLines[k + 1], GreetLine(i))

----------------------------------------------------------------------------
(* Visibility in the Python adapter. *)

PyDefinitionKinds == {"function_definition", "class_definition"}

PyName(n) == n.kids[n.fld["name"]].text

PyKeyword(n) == IF n.kind = "class_definition" THEN <<"class", " ">> ELSE <<"def", " ">>

\* the functions and classes at module level
PyTopDefinitions == {i \in 1..Len(Top) : Top[i].kind \in PyDefinitionKinds}

\* C2: a module-level function or class whose name starts with an underscore
\* never appears in the output of ExtractPythonOutline, and one whose name
\* does not start with an underscore always appears, whatever its siblings are.
C2_UnderscoreDecidesTopLevel ==
    Done("ExtractPythonOutline") =>
       \A i \in PyTopDefinitions :
          IF HasPrefix(PyName(Top[i]), <<"_">>)
          THEN ~Contains(result, PyName(Top[i]))
          ELSE Mentions(result, PyKeyword(Top[i]) \o PyName(Top[i]))

\* a module with an underscore-named and a plain definition next to each
\* other has been outlined
C2_MixedSiblingsOutlined ==
    /\ Done("ExtractPythonOutline")
    /\ \E i, j \in PyTopDefinitions :
          /\ j = i + 1
          /\ HasPrefix(PyName(Top[i]), <<"_">>)
          /\ ~HasPrefix(PyName(Top[j]), <<"_">>)
          /\ Mentions(result, PyKeyword(Top[j]) \o PyName(Top[j]))
    /\ \E i, j \in PyTopDefinitions :
          /\ j = i + 1
          /\ ~HasPrefix(PyName(Top[i]), <<"_">>)
          /\ HasPrefix(PyName(Top[j]), <<"_">>)

\* the included classes at module level
PyIncludedClasses ==
    {i \in PyTopDefinitions :
       Top[i].kind = "class_definition" /\ ~HasPrefix(PyName(Top[i]), <<"_">>)}

PyMethods(c) == c.kids[c.fld["body"]].kids

PyClassHeader(c) ==
    <<"class", " ">> \o PyName(c) \o <<":", " ", "#", " ", "line", " ">> \o FormatUint(c.row + 1)

PyMethodLine(m) ==
    <<" ", " ", " ", " ", "def", " ">> \o PyName(m)
    \o <<"(", ")", ":", " ", "#", " ", "line", " ">> \o FormatUint(m.row + 1)

\* the lines of the output below the header of class c, up to the next line
\* that is not indented: the rendered body of the class
PyRenderedBody(c) ==
    LET lines == OutputLines
        heads == {k \in 1..Len(lines) : lines[k] = PyClassHeader(c)}
    IN IF heads = {} THEN <<>>
       ELSE LET h == CHOOSE k \in heads : TRUE
                stops == {k \in (h + 1)..Len(lines) : lines[k] # <<>> /\ lines[k][1] # " "}
                last == IF stops = {} THEN Len(lines)
                        ELSE (CHOOSE k \in stops : \A j \in stops : k <= j) - 1
            IN SubSeq(lines, h + 1, last)

HasLine(lines, line) == \E k \in 1..Len(lines) : lines[k] = line

\* C3: the rendered body of an included class has a line for a method if and
\* only if the method's name does not start with an underscore.
C3_MethodLineIffPlainName ==
    Done("ExtractPythonOutline") =>
       \A i \in PyIncludedClasses :
          /\ HasLine(OutputLines, PyClassHeader(Top[i]))
          /\ \A k \in 1..Len(PyMethods(Top[i])) :
                LET m == PyMethods(Top[i])[k]
                    body == PyRenderedBody(Top[i])
                IN /\ HasLine(body, PyMethodLine(m)) <=> ~HasPrefix(PyName(m), <<"_">>)
                   /\ HasPrefix(PyName(m), <<"_">>) =>
                         \A j \in 1..Len(body) : ~Contains(body[j], PyName(m))

\* a class with two underscore-named methods and one plain method has been
\* outlined, and the methods of its body are the plain method alone
C3_TwoHiddenOneShown ==
    /\ Done("ExtractPythonOutline")
    /\ \E i \in PyIncludedClasses :
          LET ms == PyMethods(Top[i])
              body == PyRenderedBody(Top[i])
          IN /\ Len(ms) = 3
             /\ Cardinality({k \in 1..3 : HasPrefix(PyName(ms[k]), <<"_">>)}) = 2
             /\ Cardinality({j \in 1..Len(body) : Contains(body[j], <<"def", " ">>)}) = 1
             /\ \E k \in 1..3 : HasLine(body, PyMethodLine(ms[k]))

----------------------------------------------------------------------------
(* Documentation comments. *)

IsComment(i) == IsCommentKind(Top[i].kind)

\* the trimmed texts of the children first..last of the root, one per line
DocBlock(first, last) ==
    Join([k \in 1..(last - first + 1) |-> TrimSpace(Top[first + k - 1].text)], <<"\n">>)

\* the number of comments that are the siblings directly before child i
SiblingRun(i) ==
    LET starts == {j \in 1..i : \A k \in j..(i - 1) : IsComment(k)}
    IN i - (CHOOSE j \in starts : \A k \in starts : j <= k)

\* the number of comments on the lines directly above child i: each on the
\* line before the next, the last on the line before the declaration
AdjacentRun(i) ==
    LET starts == {j \in 1..i :
                     \A k \in j..(i - 1) : IsComment(k) /\ Top[k + 1].row = Top[k].row + 1}
    IN i - (CHOOSE j \in starts : \A k \in starts : j <= k)

\* C4: findDocComment attaches to a declaration only comments on the lines
\* directly above it: a comment separated from the declaration by a blank
\* line or by a line that is no comment is not part of the documentation.
C4_OnlyLinesDirectlyAbove ==
    Done("findDocComment") /\ target # <<>> =>
       \E n \in 0..AdjacentRun(target[1]) :
          result = DocBlock(target[1] - n, target[1] - 1)

\* findDocComment has returned, for a declaration, a comment that stands
\* above a blank line
C4_AttachedAcrossBlankLine ==
    /\ Done("findDocComment")
    /\ target # <<>>
    /\ target[1] > 1
    /\ IsComment(target[1] - 1)
    /\ Top[target[1] - 1].row + 1 < Top[target[1]].row
    /\ Contains(result, TrimSpace(Top[target[1] - 1].text))

\* C5: for a declaration preceded by N comment siblings and then a sibling
\* that is no comment or the start of the parent, findDocComment returns
\* those N comments, each trimmed, joined by newlines from top to bottom; it
\* returns the empty text for a node without parent or preceding comment.
C5_WholeSiblingRunInOrder ==
    Done("findDocComment") =>
       IF target = <<>> THEN result = <<>>
       ELSE /\ result = DocBlock(target[1] - SiblingRun(target[1]), target[1] - 1)
            /\ SiblingRun(target[1]) = 0 => result = <<>>

\* findDocComment has returned two comments, one of them trimmed, for a
\* declaration whose comments follow a sibling that is no comment
C5_TwoCommentsAfterCode ==
    /\ Done("findDocComment")
    /\ target # <<>>
    /\ SiblingRun(target[1]) = 2
    /\ target[1] > 3
    /\ ~IsComment(target[1] - 3)
    /\ \E k \in (target[1] - 2)..(target[1] - 1) : TrimSpace(Top[k].text) # Top[k].text
    /\ Top[target[1] - 2].text # Top[target[1] - 1].text
    /\ Len(SplitLines(result)) = 2

----------------------------------------------------------------------------
(* Order of siblings. *)

\* some entry point has returned an outline
Outlined == pc = "done" /\ err = "nil"

NamelessTypes ==
    {"blank", "go_comment", "go_comment_sp", "go_greet_comment", "java_comment",
     "js_comment", "ts_comment", "swift_comment", "c_comment", "c_ifdef",
     "go_error", "py_error", "java_error", "js_error", "ts_error", "swift_error",
     "c_error"}

\* the name an item on line `row` declares, <<>> if it declares none
DeclName(d, row) ==
    IF d.t \in NamelessTypes THEN <<>>
    ELSE IF d.t \in {"go_greet"} THEN <<"Greet">>
    ELSE IF d.t \in {"py_private_func", "py_private_class", "py_private_method"}
    THEN <<"_">> \o NameOf(row)
    ELSE IF d.t \in {"py_decorated", "js_export", "ts_export"} THEN NameOf(row + 1)
    ELSE NameOf(row)

\* the line the i-th item of a forest starts on, the forest starting on `row`
RowOf(forest, row, i) == row + ForestLines(SubSeq(forest, 1, i - 1))

\* the place of the first mention of a word in a text, 0 if there is none
FirstMention(s, word) ==
    LET at == {i \in 1..(Len(s) - Len(word) + 1) :
                 /\ SubSeq(s, i, i + Len(word) - 1) = word
                 /\ (i + Len(word) > Len(s) \/ s[i + Len(word)] \notin Digits)}
    IN IF at = {} \/ word = <<>> THEN 0 ELSE CHOOSE i \in at : \A j \in at : i <= j

RECURSIVE SiblingsInOrder(_, _, _)
\* every two siblings of the forest that are both in the text s are there in
\* the order of the forest, and so are the members of every item
SiblingsInOrder(s, forest, row) ==
    /\ \A i, j \in 1..Len(forest) :
          LET a == FirstMention(s, DeclName(forest[i], RowOf(forest, row, i)))
              b == FirstMention(s, DeclName(forest[j], RowOf(forest, row, j)))
          IN i < j /\ a > 0 /\ b > 0 => a < b
    /\ \A i \in 1..Len(forest) :
          SiblingsInOrder(s, forest[i].m, RowOf(forest, row, i) + 1)

\* C6: in the output of every adapter, two sibling declarations that are both
\* emitted stand in the order they have in the source; the members of a Swift
\* enum body, cases and functions, are such siblings.
C6_SiblingOrderKept == Outlined => SiblingsInOrder(result, content, 0)

\* a Swift enum with a case before a function has been outlined, and the
\* function stands before the case in the output
C6_SwiftCaseAfterFunction ==
    /\ Outlined
    /\ language = "swift"
    /\ \E i \in 1..Len(content) :
          /\ content[i].t = "swift_enum"
          /\ Len(content[i].m) = 2
          /\ content[i].m[1].t = "swift_entry"
          /\ content[i].m[2].t = "swift_func"
          /\ LET r == RowOf(content, 0, i)
             IN /\ FirstMention(result, <<"func", " ">> \o NameOf(r + 2)) > 0
                /\ FirstMention(result, <<"func", " ">> \o NameOf(r + 2))
                      < FirstMention(result, <<"case", " ">> \o NameOf(r + 1))

----------------------------------------------------------------------------
(* Line annotations. *)

\* the line the declaration of an item starts on: an export or a decorator
\* stands on the line before the declaration it wraps
DeclRow(d, row) ==
    IF d.t \in {"py_decorated", "js_export", "ts_export"} THEN row + 1 ELSE row

RECURSIVE Declarations(_, _, _)
\* the declarations of a forest as <<name, row, depth>>, members included
Declarations(forest, row, depth) ==
    UNION {
      (IF DeclName(forest[i], RowOf(forest, row, i)) = <<>> THEN {}
       ELSE {<<DeclName(forest[i], RowOf(forest, row, i)),
               DeclRow(forest[i], RowOf(forest, row, i)), depth>>})
      \cup Declarations(forest[i].m, RowOf(forest, row, i) + 1, depth + 1)
      : i \in 1..Len(forest)}

\* the places of a line where an annotation `line N` starts
AnnotationsIn(line) ==
    {i \in 1..(Len(line) - 2) :
       line[i] = "line" /\ line[i + 1] = " " /\ line[i + 2] \in Digits}

\* the annotation at place i of the line is `line n`
AnnotationIs(line, i, n) ==
    LET word == <<"line", " ">> \o FormatUint(n)
        stop == i + Len(word)
    IN /\ stop - 1 <= Len(line)
       /\ SubSeq(line, i, stop - 1) = word
       /\ (stop > Len(line) \/ line[stop] \notin Digits)

\* C7: every `line N` annotation written for a declaration has N equal to
\* the start row of the declaration's node plus one, at every depth and for
\* exported declarations as for plain ones; every annotated line is the line
\* of a declaration.
C7_AnnotationIsRowPlusOne ==
    Outlined =>
       \A k \in 1..Len(OutputLines) :
          LET line == OutputLines[k]
              named == {d \in Declarations(content, 0, 0) : Mentions(line, d[1])}
          IN AnnotationsIn(line) # {} =>
                /\ named # {}
                /\ \A d \in named : \A i \in AnnotationsIn(line) :
                      AnnotationIs(line, i, d[2] + 1)

\* an outline has been written with an annotated member of a class and an
\* annotated exported function, neither on the first line of the source
C7_NestedAndExportedAnnotated ==
    /\ Outlined
    /\ \E d \in Declarations(content, 0, 0) : \E k \in 1..Len(OutputLines) :
          /\ d[3] = 1
          /\ Mentions(OutputLines[k], d[1])
          /\ \E i \in AnnotationsIn(OutputLines[k]) : AnnotationIs(OutputLines[k], i, d[2] + 1)
    /\ \E j \in 1..Len(content) : \E k \in 1..Len(OutputLines) :
          /\ content[j].t \in {"js_export", "ts_export"}
          /\ Mentions(OutputLines[k], NameOf(RowOf(content, 0, j) + 1))
          /\ \E i \in AnnotationsIn(OutputLines[k]) :
                AnnotationIs(OutputLines[k], i, RowOf(content, 0, j) + 2)

----------------------------------------------------------------------------
(* Syntax errors among the children of the root. *)

ErrorTypes ==
    {"go_error", "py_error", "java_error", "js_error", "ts_error", "swift_error", "c_error"}

CommentTypes ==
    {"go_comment", "go_comment_sp", "go_greet_comment", "java_comment", "js_comment",
     "ts_comment", "swift_comment", "c_comment"}

\* an entry point has returned that has an adapter for the language
Extracted == pc = "done" /\ (call = "ExtractOutline" => language \in Registered)

\* what the adapter of a language writes for one node
NodeEntry(lang, tree, path) ==
    CASE lang = "go" -> processNode(tree, path, 0)
      [] lang = "python" -> processPythonNode(tree, path, 0)
      [] lang = "java" -> processJavaNode(tree, path, 0)
      [] lang = "javascript" -> processJSNode(tree, path, 0)
      [] lang = "typescript" -> processTSNode(tree, path, 0)
      [] lang = "swift" -> processSwiftNode(tree, path, 0)
      [] OTHER -> processCNode(tree, path, 0)

RECURSIVE WithoutErrors(_)
\* the source without its error regions: blank lines in their place
WithoutErrors(forest) ==
    IF forest = <<>> THEN <<>>
    ELSE (IF Head(forest).t \in ErrorTypes
          THEN [k \in 1..Lines(Head(forest)) |-> Desc("blank", <<>>)]
          ELSE <<Head(forest)>>)
         \o WithoutErrors(Tail(forest))

CleanRoot == BuildRoot(language, WithoutErrors(content), 0)

ErrorChildren == {i \in 1..Len(content) : content[i].t \in ErrorTypes}

\* the well-formed top-level declarations
WellFormed ==
    {i \in 1..Len(content) : content[i].t \notin ErrorTypes \cup CommentTypes \cup {"blank"}}

\* the place of item i among the children of the root, and among the
\* children of the root of the source without its error regions
ChildIndex(i) ==
    Cardinality({k \in 1..i : content[k].t # "blank"})

CleanIndex(i) ==
    Cardinality({k \in 1..i : content[k].t \notin ErrorTypes \cup {"blank"}})

\* the entry of declaration i when the error regions are absent
CleanEntry(i) == NodeEntry(language, CleanRoot, <<CleanIndex(i)>>)

\* the entry of declaration i is in the output as it is without the errors
SameEntry(i) ==
    /\ NodeEntry(language, root, <<ChildIndex(i)>>) = CleanEntry(i)
    /\ Contains(result, CleanEntry(i))

\* an error region stands between declaration i and a comment, with nothing
\* but comments and error regions from the comment to the declaration
CommentAcrossError(i) ==
    \E c, e \in 1..(i - 1) :
       /\ c < e
       /\ content[c].t \in CommentTypes
       /\ content[e].t \in ErrorTypes
       /\ \A k \in (c + 1)..(i - 1) : content[k].t \in CommentTypes \cup ErrorTypes

----------------------------------------------------------------------------
(* Nodes outside the dispatch tables. *)

\* the items whose node kind no adapter has a case for: syntax errors,
\* preprocessor conditionals, decorated definitions
UnrecognisedTypes == ErrorTypes \cup {"c_ifdef", "py_decorated"}

\* the names of the recognised declarations inside item i
NestedNames(i) ==
    LET row == RowOf(content, 0, i)
    IN IF content[i].t = "py_decorated" THEN {NameOf(row + 1)}
       ELSE {d[1] : d \in Declarations(content[i].m, row + 1, 1)}

\* C9: every adapter goes into a node whose kind is not in its dispatch
\* table, so a recognised declaration inside such a node is emitted.
C9_NestedDeclarationsEmitted ==
    Extracted /\ err = "nil" =>
       \A i \in 1..Len(content) :
          content[i].t \in UnrecognisedTypes =>
             \A name \in NestedNames(i) : Mentions(result, name)

\* an adapter has returned an outline without the function that stands
\* inside a node it has no case for
C9_NestedDeclarationDropped ==
    /\ Extracted
    /\ err = "nil"
    /\ \E i \in 1..Len(content) :
          /\ content[i].t \in UnrecognisedTypes
          /\ \E name \in NestedNames(i) : ~Mentions(result, name)
    /\ \E i \in WellFormed : content[i].t \notin UnrecognisedTypes /\ CleanEntry(i) # <<>>

----------------------------------------------------------------------------
(* Errors of ExtractOutline. *)

\* the tags the switch of ExtractOutline has an adapter for
AdapterTags == {"go", "java", "javascript", "swift", "typescript", "python"}

UnsupportedLanguageErrors ==
    {"unsupported language", "error creating parser: unsupported language"}

----------------------------------------------------------------------------
(* Files, extensions and language tags. *)

\* a call on a file has returned after it called ExtractOutline with the tag
\* the detector gave for the extension
DetectedAndExtracted ==
    /\ pc = "done"
    /\ call \in {"Run", "OutlineToolHandler"}
    /\ override = ""
    /\ consulted
    /\ tag # "none"

\* C11: every tag DetectLanguage returns for a supported extension is a tag
\* ExtractOutline accepts, so the call on a file with a supported extension
\* does not fail with an error of the extraction.
C11_DetectedTagIsAccepted ==
    DetectedAndExtracted => err = "nil" /\ ~isError

\* the command line has returned an extraction error for a file with the
\* extension .tsx, .c or .hpp, which the detector knows
C11_SupportedExtensionRejected ==
    /\ DetectedAndExtracted
    /\ call = "Run"
    /\ tag \in DOMAIN SupportedLanguages
    /\ \E k \in 1..Len(SupportedLanguages[tag].Extensions) :
          SupportedLanguages[tag].Extensions[k] = ToLower(Ext(args[1]))
    /\ err = "error extracting outline"
    /\ result = <<>>

\* Run has come to the point where it settles the language
RunReachedLanguage == Done("Run") /\ Len(args) = 1 /\ disk = "file"

\* C14: with a language override that is not empty, Run passes the override
\* to ExtractOutline and never consults the extension, so a file with an
\* unsupported extension is analysed; the detector is used only when the
\* override is empty.
C14_OverrideIsTheTag ==
    Done("Run") =>
       /\ override # "" => ~consulted /\ tag \in {override, "none"}
       /\ override # "" /\ RunReachedLanguage => tag = override
       /\ override = "" /\ RunReachedLanguage => consulted
       /\ consulted => override = ""

\* Run has printed the outline of a Go text in a file whose extension the
\* detector does not know, or knows as another language, under the override
C14_ForeignExtensionAnalysed ==
    /\ RunReachedLanguage
    /\ override = "go"
    /\ \A d \in DetectLanguage(args[1]) : d[1] # "go"
    /\ ~consulted
    /\ tag = "go"
    /\ err = "nil"
    /\ content # <<>>
    /\ result = Formatted("go", ExtractGoOutline(root))

\* the outcomes of the tool that are failures
ToolFailure ==
    \/ disk # "file"
    \/ \A d \in DetectLanguage(args[1]) : ~d[2]
    \/ \E d \in DetectLanguage(args[1]) : d[1] \notin AdapterTags

\* C15: OutlineToolHandler never returns a Go error: a failure (file
\* missing, directory, read failure, unsupported extension, extraction
\* error) gives a result with IsError set and an error text, success a
\* result with IsError unset and the text `Language: <tag>`, a blank line,
\* the outline.
C15_FailureIsAToolResult ==
    Done("OutlineToolHandler") =>
       /\ err = "nil"
       /\ isError <=> ToolFailure
       /\ isError => HasPrefix(result, <<"Error">>) /\ Len(result) > 2
       /\ ~isError =>
             /\ tag \in AdapterTags
             /\ result = <<"Language", ":", " ", tag, "\n", "\n">> \o Adapter(tag, root)

\* the tool has returned the result of an extraction error, for a file the
\* detector knows and ExtractOutline does not
C15_ExtractionErrorAsResult ==
    /\ Done("OutlineToolHandler")
    /\ disk = "file"
    /\ tag = "tsx"
    /\ isError
    /\ err = "nil"
    /\ result = <<"Error", " ", "extracting", " ", "outline", ":", " ", "unsupported", " ",
                  "language", ":", " ", "tsx">>

----------------------------------------------------------------------------
(* A session: calls of ExtractOutline one after the other in one process.   *)

SessionInputs == {<<l, c>> : l \in {"go", "tsx"}, c \in Sources("go", 1) \cup Sources("tsx", 1)}

InitSession ==
    /\ language = ""
    /\ content = <<>>
    /\ root = BuildRoot("", <<>>, 0)
    /\ call = "none"
    /\ target = <<>>
    /\ result = <<>>
    /\ err = "nil"
    /\ pc = "ready"
    /\ Idle

CallInSession ==
    /\ Len(history) < MaxCalls
    /\ \E in \in SessionInputs :
          /\ in[2] \in Sources(in[1], 1)
          /\ language' = in[1]
          /\ content' = in[2]
          /\ root' = BuildRoot(in[1], in[2], 0)
          /\ result' = ExtractOutlineAfter(history, in[1], BuildRoot(in[1], in[2], 0))[1]
          /\ err' = ExtractOutlineAfter(history, in[1], BuildRoot(in[1], in[2], 0))[2]
          /\ open' = Opened(open, in[1])
          /\ history' = Append(history,
                [language |-> in[1], content |-> in[2],
                 result |-> ExtractOutlineAfter(history, in[1], BuildRoot(in[1], in[2], 0))[1],
                 err |-> ExtractOutlineAfter(history, in[1], BuildRoot(in[1], in[2], 0))[2]])
    /\ call' = "ExtractOutline"
    /\ UNCHANGED <<target, pc, args, disk, override, tag, consulted, isError, procs, builders,
                   argv>>

NextSession == CallInSession

SpecSession == InitSession /\ [][NextSession]_vars

----------------------------------------------------------------------------
(* Two calls of ExtractOutline in two goroutines, each on its own text.  A  *)
(* step is the creation of the parser, the dispatch on the tag, the         *)
(* writing of one child of the root, or the return.                         *)

ConcTypes == {"go_comment", "go_func", "go_struct"}

ConcInputs ==
    {[language |-> "go", content |-> c] : c \in ForestsUpTo(ConcTypes, MaxConc)}
    \cup {[language |-> l, content |-> <<>>] : l \in {"tsx", "c"}}

Goroutine(in) ==
    [language |-> in.language, content |-> in.content,
     root |-> BuildRoot(in.language, in.content, 0),
     pc |-> "start", next |-> 1, result |-> <<>>, err |-> "nil"]

InitConc ==
    /\ language = ""
    /\ content = <<>>
    /\ root = BuildRoot("", <<>>, 0)
    /\ call = "none"
    /\ target = <<>>
    /\ result = <<>>
    /\ err = "nil"
    /\ pc = "ready"
    /\ args = <<>>
    /\ disk = "file"
    /\ override = ""
    /\ tag = "none"
    /\ consulted = FALSE
    /\ isError = FALSE
    /\ history = <<>>
    /\ \E a, b \in ConcInputs : procs = <<Goroutine(a), Goroutine(b)>>
    /\ builders = <<<<>>, <<>>>>
    /\ open = NoneOpen
    /\ argv = <<>>

Still == <<language, content, root, call, target, result, err, pc, args, disk, override, tag,
           consulted, isError, history, argv>>

CreateParser ==
    \E p \in 1..2 :
       /\ procs[p].pc = "start"
       /\ procs' = [procs EXCEPT ![p] =
             IF createParserForLanguage(procs[p].language) = "nil"
             THEN [@ EXCEPT !.pc = "parsed"]
             ELSE [@ EXCEPT !.pc = "done",
                            !.err = "error creating parser: unsupported language"]]
       /\ open' = Opened(open, procs[p].language)
       /\ UNCHANGED <<builders, Still>>

Dispatch ==
    \E p \in 1..2 :
       /\ procs[p].pc = "parsed"
       /\ IF procs[p].language \in Registered
          THEN /\ procs' = [procs EXCEPT ![p].pc = "walk"]
               /\ builders' = [builders EXCEPT ![BuilderOf(p)] = <<>>]
          ELSE /\ procs' = [procs EXCEPT ![p].pc = "done", ![p].err = "unsupported language"]
               /\ UNCHANGED builders
       /\ UNCHANGED <<Still, open>>

WriteChild ==
    \E p \in 1..2 :
       /\ procs[p].pc = "walk"
       /\ procs[p].next <= Len(procs[p].root.kids)
       /\ builders' = [builders EXCEPT ![BuilderOf(p)] =
             @ \o NodeEntry(procs[p].language, procs[p].root, <<procs[p].next>>)]
       /\ procs' = [procs EXCEPT ![p].next = @ + 1]
       /\ UNCHANGED <<Still, open>>

Return ==
    \E p \in 1..2 :
       /\ procs[p].pc = "walk"
       /\ procs[p].next > Len(procs[p].root.kids)
       /\ procs' = [procs EXCEPT ![p].pc = "done", ![p].result = builders[BuilderOf(p)]]
       /\ UNCHANGED <<builders, Still, open>>

NextConc == CreateParser \/ Dispatch \/ WriteChild \/ Return

SpecConc == InitConc /\ [][NextConc]_vars

\* C13: under every interleaving of two concurrent calls each call returns
\* what it returns when it runs alone.
C13_ConcurrentAsAlone ==
    \A p \in 1..Len(procs) :
       procs[p].pc = "done" =>
          <<procs[p].result, procs[p].err>>
             = ExtractOutlineValue(procs[p].language, procs[p].root)

\* a call has returned its outline while the other call, on another text,
\* was in the middle of writing its own
C13_ReturnedDuringOtherCall ==
    /\ Len(procs) = 2
    /\ procs[1].pc = "done"
    /\ procs[1].result # <<>>
    /\ procs[2].pc = "walk"
    /\ procs[2].next = 2
    /\ Len(procs[2].root.kids) = 2
    /\ builders[2] # <<>>
    /\ procs[1].content # procs[2].content

----------------------------------------------------------------------------
(* Methods of underscore-named classes in the Python adapter. *)

\* the classes at module level, whatever their names
PyTopClasses == {i \in PyTopDefinitions : Top[i].kind = "class_definition"}

PyHiddenClasses == {i \in PyTopClasses : HasPrefix(PyName(Top[i]), <<"_">>)}

\* C16: a method of a module-level class is in the output of
\* ExtractPythonOutline if and only if its own name does not start with an
\* underscore, whether or not the name of the class starts with one.
C16_MethodByOwnNameAlone ==
    Done("ExtractPythonOutline") =>
       \A i \in PyTopClasses :
          \A k \in 1..Len(PyMethods(Top[i])) :
             LET m == PyMethods(Top[i])[k]
             IN Mentions(result, <<"def", " ">> \o PyName(m))
                   <=> ~HasPrefix(PyName(m), <<"_">>)

\* an underscore-named class with a plain-named method has been outlined and
\* the method is nowhere in the output
C16_PlainMethodOfHiddenClassLost ==
    /\ Done("ExtractPythonOutline")
    /\ \E i \in PyHiddenClasses :
          \E k \in 1..Len(PyMethods(Top[i])) :
             LET m == PyMethods(Top[i])[k]
             IN /\ ~HasPrefix(PyName(m), <<"_">>)
                /\ ~Contains(result, PyName(m))

----------------------------------------------------------------------------
(* Names and modifiers outside Python: classes whose members differ in name *)
(* and in modifier keywords.                                                *)

\* the texts of one declaration of type t with up to n members of the types ms
ClassesOf(t, ms, n) ==
    {<<Desc(t, members)>> :
       members \in UNION {[1..k -> {Desc(m, <<>>) : m \in ms}] : k \in 0..n}}

VisibleLanguages == {"go", "java", "javascript", "typescript", "swift"}

VisibleSources(lang) ==
    CASE lang = "go" -> ClassesOf("go_struct", {"go_field"}, MaxMembers)
                        \cup {<<Desc("go_func", <<>>)>>}
      [] lang = "java" ->
           ClassesOf("java_class", {"java_method", "java_field", "java_class"}, MaxMembers)
      [] lang = "javascript" ->
           ClassesOf("js_class", {"js_method", "js_private_method"}, MaxMembers)
      [] lang = "typescript" ->
           ClassesOf("ts_class", {"ts_method", "ts_private_method"}, MaxMembers)
      [] lang = "swift" ->
           ClassesOf("swift_class", {"swift_func", "swift_property"}, MaxMembers)

InitVisible ==
    /\ language \in VisibleLanguages
    /\ content \in VisibleSources(language)
    /\ root = BuildRoot(language, content, 0)
    /\ call = "none"
    /\ target = <<>>
    /\ result = <<>>
    /\ err = "nil"
    /\ pc = "ready"
    /\ Idle

NextVisible == ExtractOutline

SpecVisible == InitVisible /\ [][NextVisible]_vars

\* C17: outside Python every recognised declaration is in the output of
\* ExtractOutline whatever its name and its modifier keywords are.
C17_EmittedWhateverTheName ==
    Done("ExtractOutline") /\ err = "nil" /\ language # "python" =>
       \A d \in Declarations(content, 0, 0) : Mentions(result, d[1])

\* a JavaScript or TypeScript class with a method of a plain name and a
\* method of a `#` name has been outlined: the first is in the output, the
\* second is not
C17_HashNamedMethodLost ==
    /\ Done("ExtractOutline")
    /\ err = "nil"
    /\ language \in {"javascript", "typescript"}
    /\ \E i \in 1..Len(content) :
          \E j, k \in 1..Len(content[i].m) :
             /\ content[i].m[j].t \in {"js_method", "ts_method"}
             /\ content[i].m[k].t \in {"js_private_method", "ts_private_method"}
             /\ Mentions(result, NameOf(RowOf(content[i].m, RowOf(content, 0, i) + 1, j)))
             /\ ~Mentions(result, NameOf(RowOf(content[i].m, RowOf(content, 0, i) + 1, k)))

\* the declarations of the text that are not methods with a `#` name
C17_WithoutHashNames ==
    Done("ExtractOutline") /\ err = "nil" /\ language # "python" =>
       \A i \in 1..Len(content) :
          /\ Mentions(result, DeclName(content[i], RowOf(content, 0, i)))
          /\ \A k \in 1..Len(content[i].m) :
                content[i].m[k].t \notin {"js_private_method", "ts_private_method"}
                   => Mentions(result, NameOf(RowOf(content[i].m, RowOf(content, 0, i) + 1, k)))

----------------------------------------------------------------------------
(* Declarations without their optional fields. *)

BareSources(lang) ==
    IF lang = "java"
    THEN ClassesOf("java_class", {"java_method", "java_bare_method"}, MaxMembers)
    ELSE VisibleSources(lang)

InitBare ==
    /\ language \in VisibleLanguages
    /\ content \in BareSources(language)
    /\ root = BuildRoot(language, content, 0)
    /\ call = "none"
    /\ target = <<>>
    /\ result = <<>>
    /\ err = "nil"
    /\ pc = "ready"
    /\ Idle

NextBare == ExtractOutline

SpecBare == InitBare /\ [][NextBare]_vars

RECURSIVE SymbolsOf(_)
\* the symbols of the source text under a node
SymbolsOf(n) ==
    {n.text[i] : i \in 1..Len(n.text)}
    \cup UNION {SymbolsOf(n.kids[k]) : k \in 1..Len(n.kids)}

\* the symbols an adapter writes around the text it takes from the source:
\* white space, the stub of a body and the line annotation
Decoration == {" ", "\t", "\n", "{", "}", "/", ".", ";", ":", "#", "line"} \cup Digits

\* the members of the classes at the top level
Members == {<<k, j>> : k \in 1..Len(Top), j \in 1..MaxMembers} \cap
           {m \in Nat \X Nat : "body" \in DOMAIN Top[m[1]].fld
                               /\ m[2] <= Len(PyMethods(Top[m[1]]))}

\* the methods that have neither the field `type` nor the field `parameters`
BareMethods ==
    {m \in Members :
       LET n == PyMethods(Top[m[1]])[m[2]]
       IN /\ n.kind = "method_declaration"
          /\ "type" \notin DOMAIN n.fld
          /\ "parameters" \notin DOMAIN n.fld}

\* C18: the output of ExtractOutline for declarations without parameters,
\* return type or heritage has no symbol that is not in the source, apart
\* from white space, the body stub and the line annotation, and the call
\* returns no error.
C18_NothingSubstituted ==
    Done("ExtractOutline") =>
       /\ err = "nil"
       /\ \A i \in 1..Len(result) : result[i] \in SymbolsOf(root) \cup Decoration

\* a Java method without return type and without parameter list has been
\* outlined as `void n1()`
C18_VoidAndParenthesesWritten ==
    /\ Done("ExtractOutline")
    /\ err = "nil"
    /\ language = "java"
    /\ BareMethods # {}
    /\ \A m \in BareMethods :
          Mentions(result, <<"void", " ">> \o PyName(PyMethods(Top[m[1]])[m[2]]) \o <<"(", ")">>)
    /\ "void" \notin SymbolsOf(root)
    /\ "(" \notin SymbolsOf(root)

----------------------------------------------------------------------------
(* The annotation on the header line of a declaration. *)

\* the lines of the output that name the declaration d
HeaderLines(d) == {k \in 1..Len(OutputLines) : Mentions(OutputLines[k], d[1])}

\* C19: in the output of every adapter, Swift included, a declaration that
\* is emitted has a header line with a `line N` annotation.
C19_HeaderLineAnnotated ==
    Outlined =>
       \A d \in Declarations(content, 0, 0) :
          HeaderLines(d) # {} =>
             \E k \in HeaderLines(d) : AnnotationsIn(OutputLines[k]) # {}

\* a Swift function at the top level has been outlined and no line of the
\* output has an annotation
C19_SwiftFunctionUnannotated ==
    /\ Outlined
    /\ language = "swift"
    /\ \E i \in 1..Len(content) :
          /\ content[i].t = "swift_func"
          /\ HasLine(OutputLines, <<"func", " ">> \o NameOf(RowOf(content, 0, i)) \o <<"(", ")">>)
    /\ \A k \in 1..Len(OutputLines) : AnnotationsIn(OutputLines[k]) = {}

----------------------------------------------------------------------------
(* Indentation and nesting depth. *)

\* the indentation one level of nesting adds in the output of each adapter
IndentUnit(lang) ==
    CASE lang \in {"javascript", "typescript", "swift"} -> <<" ", " ">>
      [] lang = "python" -> <<" ", " ", " ", " ">>
      [] OTHER -> <<"\t">>

\* the line starts with exactly n indentation units
IndentedBy(line, lang, n) ==
    LET lead == Repeat(IndentUnit(lang), n)
    IN /\ Len(line) > Len(lead)
       /\ SubSeq(line, 1, Len(lead)) = lead
       /\ line[Len(lead) + 1] \notin {" ", "\t"}

\* no item of the forest is a node the adapters do not recognise
RECURSIVE Recognised(_)
Recognised(forest) ==
    \A i \in 1..Len(forest) :
       forest[i].t \notin UnrecognisedTypes /\ Recognised(forest[i].m)

\* C20: the line of a declaration nested at depth d starts with d
\* indentation units of its language, so that the members of a struct or
\* class whose header has d units have d + 1.
C20_IndentedByDepth ==
    Outlined /\ Recognised(content) =>
       \A d \in Declarations(content, 0, 0) :
          \A k \in HeaderLines(d) : IndentedBy(OutputLines[k], language, d[3])

\* declarations nested in declarations: a class at the top level and in a
\* namespace, a struct in a namespace, a class in a class
NestedSources(lang) ==
    CASE lang = "cpp" ->
           ClassesOf("c_class", {"c_member"}, MaxMembers)
           \cup {<<Desc("c_namespace", inner)>> :
                   inner \in ClassesOf("c_class", {"c_member"}, MaxMembers)
                             \cup ClassesOf("c_struct", {"c_field"}, MaxMembers)}
      [] lang = "c" -> ClassesOf("c_struct", {"c_field"}, MaxMembers)
      [] lang = "java" ->
           {<<Desc("java_class", inner)>> :
              inner \in ClassesOf("java_class", {"java_method", "java_field"}, MaxMembers)}
      [] lang = "python" -> ClassesOf("py_class", {"py_method"}, MaxMembers)
      [] OTHER -> VisibleSources(lang)

InitNested ==
    /\ language \in VisibleLanguages \cup {"python", "c", "cpp"}
    /\ content \in NestedSources(language)
    /\ root = BuildRoot(language, content, 0)
    /\ call = "none"
    /\ target = <<>>
    /\ result = <<>>
    /\ err = "nil"
    /\ pc = "ready"
    /\ Idle

NextNested == ExtractOutline \/ CallExtractCOutline \/ CallExtractCppOutline

SpecNested == InitNested /\ [][NextNested]_vars

\* a C++ class at the top level has been outlined: its header is not
\* indented and its member is indented by two tabs
C20_MemberOfTopClassTwoTabs ==
    /\ Done("ExtractCppOutline")
    /\ Len(content) = 1
    /\ content[1].t = "c_class"
    /\ Len(content[1].m) = 1
    /\ \E k \in HeaderLines(<<NameOf(0), 0, 0>>) : IndentedBy(OutputLines[k], "cpp", 0)
    /\ \E k \in HeaderLines(<<NameOf(1), 1, 1>>) : IndentedBy(OutputLines[k], "cpp", 2)

----------------------------------------------------------------------------
(* Bodies: every function body of the text holds the statement `secret()`.  *)

BodyKinds == {"block", "statement_block", "function_body", "compound_statement"}

RECURSIVE WithBodies(_)
\* the tree with the statement in every body, and the text of a declaration
\* reaching to the end of its body
WithBodies(n) ==
    LET hasBody == \E k \in 1..Len(n.kids) :
                      n.kids[k].kind \in BodyKinds /\ n.kids[k].kids = <<>>
    IN [n EXCEPT
          !.text = IF n.kind \in BodyKinds /\ n.kids = <<>> THEN SecretBody
                   ELSE IF hasBody /\ ~Contains(@, <<"secret">>) THEN @ \o <<" ">> \o SecretBody
                   ELSE @,
          !.kids = [k \in 1..Len(n.kids) |-> WithBodies(n.kids[k])]]

\* what stands at the top level of a text, with a variable holding a function
\* literal and a default export of an anonymous function
BodyTypes(lang) ==
    TopTypes(lang) \cup (CASE lang = "go" -> {"go_var_func"}
                           [] lang = "typescript" -> {"ts_export_default", "ts_class"}
                           [] lang = "python" -> {"py_class"}
                           [] lang = "swift" -> {"swift_class"}
                           [] OTHER -> {})

InitBody ==
    /\ language \in Registered \cup {"c", "cpp"}
    /\ content \in ForestsUpTo(BodyTypes(language), MaxBody)
    /\ root = WithBodies(BuildRoot(language, content, 0))
    /\ call = "none"
    /\ target = <<>>
    /\ result = <<>>
    /\ err = "nil"
    /\ pc = "ready"
    /\ Idle

NextBody == ExtractOutline \/ CallExtractCOutline \/ CallExtractCppOutline

SpecBody == InitBody /\ [][NextBody]_vars

\* C21: no statement of a function, method or class body is in the output
\* of any adapter.
C21_NoBodyText == Outlined => ~Contains(result, <<"secret">>)

\* a Go variable holding a function literal has been outlined, and the
\* statement of the literal's body is in the output
C21_FunctionLiteralBodyWritten ==
    /\ Done("ExtractOutline")
    /\ language = "go"
    /\ \E i \in 1..Len(content) : content[i].t = "go_var_func"
    /\ Contains(result, <<"=", " ", "func", "(", ")", " ", "{", " ", "secret", "(", ")", " ", "}">>)

\* the texts without a function literal as value and without a default
\* export of an anonymous function
C21_NoBodyTextOfDeclarations ==
    (Outlined /\ \A i \in 1..Len(content) :
                    content[i].t \notin {"go_var_func", "ts_export_default"})
       => ~Contains(result, <<"secret">>)

----------------------------------------------------------------------------
(* Parsers and trees. *)

\* C22: after any sequence of calls of ExtractOutline, successful or not,
\* no parser and no syntax tree is open.
C22_AllClosedAfterCalls == open = NoneOpen

\* a call that returned an outline and a call that returned the
\* unsupported-language error have both left their parser and their tree open
C22_ParserAndTreeLeftOpen ==
    /\ Len(history) = 2
    /\ history[1].err = "nil" /\ history[1].result # <<>>
    /\ history[2].err = "unsupported language"
    /\ open = [parsers |-> 2, trees |-> 2]

----------------------------------------------------------------------------
(* Signatures of C and C++ functions. *)

SigSymbols == {"a", " ", "\t", "\n"}

SigTexts == UNION {[1..k -> SigSymbols] : k \in 0..MaxSig}

\* a function definition whose return type and declarator have the given
\* texts; a node without the field has no such child
SigNode(hasType, type, hasDecl, decl) ==
    LET kids == (IF hasType THEN <<Leaf("primitive_type", 0, type)>> ELSE <<>>)
                \o (IF hasDecl THEN <<Leaf("function_declarator", 0, decl)>> ELSE <<>>)
        fld == IF ~hasType /\ ~hasDecl THEN NoFields
               ELSE IF ~hasType THEN ("declarator" :> 1)
               ELSE IF ~hasDecl THEN ("type" :> 1)
               ELSE ("type" :> 1 @@ "declarator" :> 2)
    IN Mk("function_definition", 0, <<>>, fld, kids)

InitSig ==
    /\ language = "cpp"
    /\ content = <<>>
    /\ \E type \in SigTexts \cup {<<"a", "(">>}, decl \in SigTexts :
          root \in {SigNode(TRUE, type, TRUE, decl), SigNode(FALSE, <<>>, TRUE, decl),
                    SigNode(TRUE, type, FALSE, <<>>), SigNode(FALSE, <<>>, FALSE, <<>>)}
    /\ call = "none"
    /\ target = <<>>
    /\ result = <<>>
    /\ err = "nil"
    /\ pc = "ready"
    /\ Idle

CallExtractFunctionSignature ==
    /\ pc = "ready"
    /\ call' = "extractFunctionSignature"
    /\ result' = extractFunctionSignature(root, target)
    /\ pc' = "done"
    /\ UNCHANGED <<language, content, root, target, err, aside, open>>

NextSig == CallExtractFunctionSignature

SpecSig == InitSig /\ [][NextSig]_vars

\* C23: the signature extractFunctionSignature returns has no newline, no
\* tab, no two spaces in a row and no space at either end, and cleaning it
\* again gives the same signature.
C23_SignatureIsClean ==
    Done("extractFunctionSignature") =>
       /\ \A i \in 1..Len(result) : result[i] \notin {"\n", "\t"}
       /\ ~Contains(result, <<" ", " ">>)
       /\ result # <<>> => result[1] # " " /\ result[Len(result)] # " "
       /\ TrimSpace(collapseSpaces(ReplaceAll(ReplaceAll(result, <<"\n">>, <<" ">>),
                                              <<"\t">>, <<" ">>))) = result

\* a return type and a declarator that starts with a newline and a tab have
\* been joined with one space between them
C23_RunOfBlanksBecameOneSpace ==
    /\ Done("extractFunctionSignature")
    /\ cFieldText(root, <<>>, "type") = <<"a">>
    /\ cFieldText(root, <<>>, "declarator") = <<"\n", "\t", "a">>
    /\ result = <<"a", " ", "a">>

----------------------------------------------------------------------------
(* The traversal of the C and C++ adapter. *)

Max(S) == IF S = {} THEN 0 ELSE CHOOSE x \in S : \A y \in S : y <= x

RECURSIVE Height(_)
\* the number of nodes on the longest way from a node down to a leaf
Height(n) == 1 + Max({Height(n.kids[k]) : k \in 1..Len(n.kids)})

RECURSIVE processCNodeDepth(_, _)
\* the number of nested calls of processCNode a call on the node makes, the
\* call itself included
processCNodeDepth(tree, path) ==
    LET kind == Kind(tree, path)
        named == NamedChildren(tree, path)
        below ==
           CASE kind = "namespace_definition" ->
                  IF HasField(tree, path, "body")
                  THEN NamedChildren(tree, ChildByFieldName(tree, path, "body"))
                  ELSE <<>>
             [] kind = "template_declaration" ->
                  SelectSeq(named, LAMBDA q : Kind(tree, q) # "template_parameter_list")
             [] kind \in {"preproc_def", "preproc_function_def", "preproc_include",
                          "function_definition", "declaration", "struct_specifier",
                          "union_specifier", "enum_specifier", "type_definition",
                          "class_specifier"} -> <<>>
             [] OTHER -> named
    IN 1 + Max({processCNodeDepth(tree, below[k]) : k \in 1..Len(below)})

InitTemplate ==
    /\ language \in {"c", "cpp"}
    /\ content \in ForestsUpTo(TopTypes(language)
                               \cup (IF language = "cpp" THEN {"c_template"} ELSE {}), MaxBody)
    /\ root = BuildRoot(language, content, 0)
    /\ call = "none"
    /\ target = <<>>
    /\ result = <<>>
    /\ err = "nil"
    /\ pc = "ready"
    /\ Idle

NextTemplate == CallExtractCOutline \/ CallExtractCppOutline

SpecTemplate == InitTemplate /\ [][NextTemplate]_vars

\* C24: the traversal of the C and C++ adapter returns, its calls are
\* nested no deeper than the tree, and no declaration is written on more
\* than one line of the output.
C24_EachDeclarationOnce ==
    Outlined =>
       /\ processCNodeDepth(root, <<>>) <= Height(root)
       /\ \A d \in Declarations(content, 0, 0) : Cardinality(HeaderLines(d)) <= 1

\* a function template on one line has been outlined, and the function is
\* on two lines of the output: on the first line of the template and on the
\* line of the function
C24_TemplateFunctionTwice ==
    /\ Done("ExtractCppOutline")
    /\ Len(content) = 1
    /\ content[1].t = "c_template"
    /\ OutputLines[1] = <<"template", " ", "<", "typename", " ", "T", ">", " ",
                          "int", " ", "n", "0", "(", ")", " ", "{", "}",
                          " ", "/", "/", " ", "line", " ", "1">>
    /\ Cardinality(HeaderLines(<<NameOf(0), 0, 0>>)) = 2

\* the texts without a template
C24_EachDeclarationOnceWithoutTemplates ==
    (Outlined /\ \A i \in 1..Len(content) : content[i].t # "c_template") =>
       /\ processCNodeDepth(root, <<>>) <= Height(root)
       /\ \A d \in Declarations(content, 0, 0) : Cardinality(HeaderLines(d)) <= 1

----------------------------------------------------------------------------
(* Constant and variable blocks of Go. *)

\* the const blocks at the top level of the text, and those with a spec
GoBlocks == {i \in 1..Len(content) : content[i].t = "go_const"}

GoBlocksWithSpec == {i \in GoBlocks : content[i].m # <<>>}

LinesEqual(line) == {k \in 1..Len(OutputLines) : OutputLines[k] = line}

\* C25: the Go adapter writes the opening line of a const block once for
\* each block that has a named spec and for no other block, writes a closing
\* line for each opening line, and writes nothing at all for a text of
\* comments and blocks without spec.
C25_BlockOnlyWithSpecs ==
    Done("ExtractOutline") /\ language = "go" =>
       /\ Cardinality(LinesEqual(<<"const", " ", "(">>)) = Cardinality(GoBlocksWithSpec)
       /\ Cardinality(LinesEqual(<<")">>)) = Cardinality(LinesEqual(<<"const", " ", "(">>))
       /\ (\A i \in 1..Len(content) :
              content[i].t = "go_comment" \/ (i \in GoBlocks /\ i \notin GoBlocksWithSpec))
             => result = <<>>

\* a const block without spec below a comment has been outlined: the
\* comment and the opening line are written and no closing line is
C25_EmptyBlockOpened ==
    /\ Done("ExtractOutline")
    /\ language = "go"
    /\ Len(content) = 2
    /\ content[1].t = "go_comment"
    /\ content[2] = Desc("go_const", <<>>)
    /\ Mentions(OutputLines[1], <<"doc", "0">>)
    /\ OutputLines[2] = <<"const", " ", "(">>
    /\ LinesEqual(<<")">>) = {}

\* the blocks that have a spec
C25_BlockWithSpecsClosed ==
    Done("ExtractOutline") /\ language = "go" /\ GoBlocks = GoBlocksWithSpec =>
       /\ Cardinality(LinesEqual(<<"const", " ", "(">>)) = Cardinality(GoBlocks)
       /\ Cardinality(LinesEqual(<<")">>)) = Cardinality(GoBlocks)

----------------------------------------------------------------------------
(* The placeholder of a Python class. *)

PyPassLine == <<" ", " ", " ", " ", "pass">>

\* the methods of class c whose names do not start with an underscore
PyPlainMethods(c) ==
    {k \in 1..Len(PyMethods(c)) : ~HasPrefix(PyName(PyMethods(c)[k]), <<"_">>)}

\* C26: the rendered body of an included Python class has the line `pass`
\* if and only if the class has no method whose name lacks a leading
\* underscore.
C26_PassIffNoMethodEmitted ==
    Done("ExtractPythonOutline") =>
       \A i \in PyIncludedClasses :
          HasLine(PyRenderedBody(Top[i]), PyPassLine) <=> PyPlainMethods(Top[i]) = {}

\* a class with underscore-named methods only and a class with a plain
\* method have been outlined: the first has `pass`, the second has not
C26_PassForHiddenMethodsOnly ==
    /\ Done("ExtractPythonOutline")
    /\ \E i, j \in PyIncludedClasses :
          /\ PyMethods(Top[i]) # <<>>
          /\ PyPlainMethods(Top[i]) = {}
          /\ HasLine(PyRenderedBody(Top[i]), PyPassLine)
          /\ PyPlainMethods(Top[j]) # {}
          /\ ~HasLine(PyRenderedBody(Top[j]), PyPassLine)
          /\ \E k \in PyPlainMethods(Top[j]) :
                HasLine(PyRenderedBody(Top[j]), PyMethodLine(PyMethods(Top[j])[k]))

----------------------------------------------------------------------------
(* The command line and the tool on the same path. *)

\* the check at which a call of Run ended, 6 when it passed them all
RunCheck(e) ==
    CASE e = "file not found" -> 1
      [] e = "expected a file, got directory" -> 2
      [] e = "error reading file" -> 3
      [] e = "unsupported file extension" -> 4
      [] e = "error extracting outline" -> 5
      [] e = "nil" -> 6
      [] OTHER -> 0

\* the check at which a call of the tool ended, read off its result
ToolCheck(flag, text) ==
    IF ~flag THEN 6
    ELSE IF HasPrefix(text, <<"Error", ":", " ", "file", " ", "not", " ", "found">>) THEN 1
    ELSE IF HasPrefix(text, <<"Error", ":", " ", "expected", " ", "a", " ", "file">>) THEN 2
    ELSE IF HasPrefix(text, <<"Error", " ", "reading", " ", "file">>) THEN 3
    ELSE IF HasPrefix(text, <<"Error", ":", " ", "unsupported", " ", "file", " ",
                              "extension">>) THEN 4
    ELSE IF HasPrefix(text, <<"Error", " ", "extracting", " ", "outline">>) THEN 5
    ELSE 0

\* one of the two has been called with one path and no override
OnePathNoOverride ==
    /\ pc = "done"
    /\ call \in {"Run", "OutlineToolHandler"}
    /\ Len(args) = 1
    /\ override = ""

\* C27: for the same path, Run with an empty override and
\* OutlineToolHandler end at the same check (file exists, not a directory,
\* readable, extension supported, extraction succeeds) or both succeed with
\* the same text `Language: <tag>`, a blank line, the outline; Run prints
\* nothing when it returns an error.
C27_SameChecksSameOutcome ==
    OnePathNoOverride =>
       /\ call = "Run" =>
             /\ RunCheck(err) \in 1..6
             /\ err # "nil" => result = <<>>
             /\ \A t \in OutlineToolHandler(args[1], disk, root) :
                   t.tag = tag =>
                      /\ ToolCheck(t.isError, t.text) = RunCheck(err)
                      /\ err = "nil" => result = t.text
       /\ call = "OutlineToolHandler" =>
             /\ ToolCheck(isError, result) \in 1..6
             /\ \A r \in Run(args, disk, "", root) :
                   r.tag = tag =>
                      /\ RunCheck(r.err) = ToolCheck(isError, result)
                      /\ ~isError => r.out = result

\* the tool has returned the outline of a file with declarations, and Run
\* prints the same text for it
C27_BothPrintTheOutline ==
    /\ OnePathNoOverride
    /\ call = "OutlineToolHandler"
    /\ disk = "file"
    /\ content # <<>>
    /\ ~isError
    /\ result = Formatted(tag, Adapter(tag, root))
    /\ \E r \in Run(args, disk, "", root) : r.err = "nil" /\ r.out = result

\* the tool has ended at the reading of a file whose extension is not
\* supported, and Run ends at the same check with nothing printed
C27_BothFailAtReading ==
    /\ OnePathNoOverride
    /\ call = "OutlineToolHandler"
    /\ disk = "unreadable"
    /\ \A d \in DetectLanguage(args[1]) : ~d[2]
    /\ ToolCheck(isError, result) = 3
    /\ \A r \in Run(args, disk, "", root) : RunCheck(r.err) = 3 /\ r.out = <<>>

----------------------------------------------------------------------------
(* The extensions of the detector. *)

\* the languages of the table that list the extension ext
Listing(ext) ==
    {l \in DOMAIN SupportedLanguages :
        \E k \in 1..Len(SupportedLanguages[l].Extensions) :
           SupportedLanguages[l].Extensions[k] = ext}

\* the extensions of the table
AllExtensions ==
    UNION {{SupportedLanguages[l].Extensions[k] : k \in 1..Len(SupportedLanguages[l].Extensions)}
           : l \in DOMAIN SupportedLanguages}

\* C28: every extension of SupportedLanguages is listed by exactly one
\* language, so DetectLanguage has one answer (tag, true) for a path
\* whatever the order in which the map is walked; the case of the letters of
\* the extension does not matter, and a path whose lower-cased extension is
\* listed nowhere gives ("", false).
C28_OneLanguagePerExtension ==
    /\ \A ext \in AllExtensions : Cardinality(Listing(ext)) = 1
    /\ args # <<>> =>
          LET path == args[1] IN
          /\ Cardinality(DetectLanguage(path)) = 1
          /\ DetectLanguage(path) = DetectLanguage(ToLower(path))
          /\ Listing(ToLower(Ext(path))) = {} <=> DetectLanguage(path) = {<<"", FALSE>>}
          /\ \A l \in Listing(ToLower(Ext(path))) : DetectLanguage(path) = {<<l, TRUE>>}
          /\ pc = "done" /\ consulted /\ tag # "none" => DetectLanguage(path) = {<<tag, TRUE>>}

\* Run has outlined the file m.PY as Python: the detector was asked and gave
\* the one tag of the extension .py
C28_UpperCaseExtensionDetected ==
    /\ Done("Run")
    /\ Len(args) = 1
    /\ Ext(args[1]) = <<".", "PY">>
    /\ disk = "file"
    /\ consulted
    /\ tag = "python"
    /\ err = "nil"
    /\ DetectLanguage(args[1]) = {<<"python", TRUE>>}
    /\ DetectLanguage(<<"script", ".", "txt">>) = {<<"", FALSE>>}

----------------------------------------------------------------------------
(* Python definitions inside other nodes: in the body of a function, in the *)
(* body of a class, under a decorator, in a conditional block.              *)

MaxNest == 3

NestTypes == {"py_func", "py_outer_func", "py_outer_class", "py_if", "py_decorated"}

InitPyNested ==
    /\ language = "python"
    /\ content \in ForestsUpTo(NestTypes, MaxNest)
    /\ root = BuildRoot(language, content, 0)
    /\ call = "none"
    /\ target = <<>>
    /\ result = <<>>
    /\ err = "nil"
    /\ pc = "ready"
    /\ Idle

NextPyNested == CallExtractPythonOutline

SpecPyNested == InitPyNested /\ [][NextPyNested]_vars

RECURSIVE PathsBelow(_, _)
\* the paths of the nodes of n, which is at `path`
PathsBelow(n, path) ==
    {path} \cup UNION {PathsBelow(n.kids[k], path \o <<k>>) : k \in 1..Len(n.kids)}

\* the paths of the function and class definitions of the tree
PyDefinitionPaths == {p \in PathsBelow(root, <<>>) : Kind(root, p) \in PyDefinitionKinds}

\* the definition at p is a method in the body of an included class at
\* module level
PyMethodOfTopClass(p) ==
    /\ Len(p) = 3
    /\ Kind(root, p) = "function_definition"
    /\ Kind(root, <<p[1]>>) = "class_definition"
    /\ HasField(root, <<p[1]>>, "body")
    /\ ChildByFieldName(root, <<p[1]>>, "body") = <<p[1], p[2]>>
    /\ ~HasPrefix(PyName(NodeAt(root, <<p[1]>>)), <<"_">>)

\* C29: the Python adapter writes a function or class only when it is a
\* direct named child of the module, and a method only when it is a direct
\* named child of the body of an included class; a definition inside any
\* other node (a function body, a nested class, a decorator, a conditional
\* block) is not written at all.
C29_OnlyModuleAndClassBodyLevel ==
    Done("ExtractPythonOutline") =>
       \A p \in PyDefinitionPaths :
          LET n == NodeAt(root, p)
          IN IF Len(p) = 1 \/ PyMethodOfTopClass(p)
             THEN Mentions(result, PyKeyword(n) \o PyName(n))
             ELSE ~Mentions(result, PyName(n))

\* a module has been outlined that has a class with a method and a class in
\* its body: the method was written, the class in the class was not
C29_NestedDefinitionsOutlined ==
    /\ Done("ExtractPythonOutline")
    /\ \E p \in PyDefinitionPaths :
          /\ PyMethodOfTopClass(p)
          /\ Mentions(result, <<"def", " ">> \o PyName(NodeAt(root, p)))
    /\ \E p \in PyDefinitionPaths :
          /\ Len(p) = 3
          /\ Kind(root, <<p[1]>>) = "class_definition"
          /\ Kind(root, p) = "class_definition"
          /\ ~Mentions(result, PyName(NodeAt(root, p)))

\* a module has been outlined that has a function in the body of a
\* function: the outer function was written, the inner one was not
C29_FunctionInFunctionOutlined ==
    /\ Done("ExtractPythonOutline")
    /\ \E p \in PyDefinitionPaths :
          /\ Len(p) = 3
          /\ Kind(root, <<p[1]>>) = "function_definition"
          /\ Mentions(result, <<"def", " ">> \o PyName(NodeAt(root, <<p[1]>>)))
          /\ ~Mentions(result, PyName(NodeAt(root, p)))

----------------------------------------------------------------------------
(* main.go: one run of the program on a command line. *)

MaxArgv == 3

\* the words command lines are made of: the flags main defines, a flag it
\* does not define, a language tag and a path
ArgWords ==
    {<<"--help">>, <<"--version">>, <<"--mcp">>, <<"--language">>, <<"--bogus">>, <<"go">>,
     <<"main", ".", "go">>}

\* a word as the string a flag takes for its value
ArgString(word) ==
    IF Len(word) = 1 THEN word[1] ELSE "main.go"

CommandLines == UNION {[1..n -> ArgWords] : n \in 0..MaxArgv}

\* the flags before flag.Parse, with their defaults
DefaultFlags ==
    [ok |-> TRUE, help |-> FALSE, showVersion |-> FALSE, mcpMode |-> FALSE, language |-> "",
     rest |-> <<>>]

RECURSIVE ParseFrom(_, _)
\* the loop of flag.Parse: flags are taken from the front up to the first
\* word that is no flag, a flag with a value takes the next word whatever it
\* is, and a flag that is not defined or lacks its value ends the parse
ParseFrom(arguments, f) ==
    IF arguments = <<>> THEN f
    ELSE LET s == Head(arguments)
         IN CASE s = <<"--help">> -> ParseFrom(Tail(arguments), [f EXCEPT !.help = TRUE])
              [] s = <<"--version">> ->
                   ParseFrom(Tail(arguments), [f EXCEPT !.showVersion = TRUE])
              [] s = <<"--mcp">> -> ParseFrom(Tail(arguments), [f EXCEPT !.mcpMode = TRUE])
              [] s = <<"--language">> ->
                   IF Len(arguments) < 2 THEN [f EXCEPT !.ok = FALSE]
                   ELSE ParseFrom(SubSeq(arguments, 3, Len(arguments)),
                                  [f EXCEPT !.language = ArgString(arguments[2])])
              [] s = <<"--bogus">> -> [f EXCEPT !.ok = FALSE]
              [] OTHER -> [f EXCEPT !.rest = arguments]

\* the flags and flag.Args() after flag.Parse; ok is false when the parse
\* failed
Parse(arguments) == ParseFrom(arguments, DefaultFlags)

VersionText ==
    <<"outline", " ", "version", " ", "dev", "\n", "commit", ":", " ", "none", "\n",
      "built", ":", " ", "unknown", "\n">>

\* what a run of main leaves: what it started, in order, the text on the
\* standard output, the exit status, the flags, and what cli.Run left
MainEnd(started, out, status, f, e) ==
    [started |-> started, out |-> out, status |-> status, flags |-> f, run |-> e]

NoRun == RunEnd("nil", <<>>, "none", FALSE)

\* a main that looks at the version flag before the help flag
mainVersionFirst(arguments, stat, tree) ==
    LET f == Parse(arguments)
    IN IF ~f.ok THEN {MainEnd(<<"parse error", "flag.Usage">>, <<>>, 2, f, NoRun)}
       ELSE IF f.showVersion THEN {MainEnd(<<"version">>, VersionText, 0, f, NoRun)}
       ELSE IF f.help THEN {MainEnd(<<"flag.Usage">>, <<>>, 0, f, NoRun)}
       ELSE IF f.mcpMode THEN {MainEnd(<<"server.Run">>, <<>>, 0, f, NoRun)}
       ELSE {MainEnd(<<"cli.Run">>, e.out, IF e.err = "nil" THEN 0 ELSE 1, f, e)
             : e \in Run(f.rest, stat, f.language, tree)}

\* the ways a run of main can end: a command line flag.Parse rejects ends
\* the process with the error and the usage text and status 2
main(arguments, stat, tree) ==
    LET f == Parse(arguments)
    IN IF ~f.ok THEN {MainEnd(<<"parse error", "flag.Usage">>, <<>>, 2, f, NoRun)}
       ELSE IF f.help THEN {MainEnd(<<"flag.Usage">>, <<>>, 0, f, NoRun)}
       ELSE IF f.showVersion THEN {MainEnd(<<"version">>, VersionText, 0, f, NoRun)}
       ELSE IF f.mcpMode THEN {MainEnd(<<"server.Run">>, <<>>, 0, f, NoRun)}
       ELSE {MainEnd(<<"cli.Run">>, e.out, IF e.err = "nil" THEN 0 ELSE 1, f, e)
             : e \in Run(f.rest, stat, f.language, tree)}

\* the language the file of the command line is going to be parsed as
MainLanguages(arguments) ==
    LET f == Parse(arguments)
    IN IF ~f.ok \/ Len(f.rest) # 1 THEN {""}
       ELSE IF f.language # "" THEN {f.language}
       ELSE {d[1] : d \in DetectLanguage(f.rest[1])}

InitMain ==
    /\ argv \in CommandLines
    /\ disk \in {"file", "missing"}
    /\ language \in MainLanguages(argv)
    /\ content \in Sources(language, 1)
    /\ root = BuildRoot(language, content, 0)
    /\ call = "none"
    /\ target = <<>>
    /\ result = <<>>
    /\ err = "nil"
    /\ pc = "ready"
    /\ args = <<>>
    /\ override = ""
    /\ tag = "none"
    /\ consulted = FALSE
    /\ isError = FALSE
    /\ history = <<>>
    /\ procs = <<>>
    /\ builders = <<>>
    /\ open = NoneOpen

\* one run of main, from flag.Parse to the end of the process; history is
\* what it started, in order
CallMain ==
    /\ pc = "ready"
    /\ \E m \in main(argv, disk, root) :
          /\ history' = m.started
          /\ result' = m.out
          /\ err' = m.run.err
          /\ tag' = m.run.tag
          /\ consulted' = m.run.consulted
          /\ args' = m.flags.rest
          /\ override' = m.flags.language
          /\ open' = IF m.run.tag = "none" THEN open ELSE Opened(open, m.run.tag)
    /\ call' = "main"
    /\ pc' = "done"
    /\ UNCHANGED <<language, content, root, target, disk, isError, procs, builders, argv>>

NextMain == CallMain

SpecMain == InitMain /\ [][NextMain]_vars

\* the mode the flags choose: help before version before server before
\* command line
ModeOf(f) ==
    IF f.help THEN "flag.Usage"
    ELSE IF f.showVersion THEN "version"
    ELSE IF f.mcpMode THEN "server.Run"
    ELSE "cli.Run"

\* nothing of the server or of the extraction was started
NeitherServerNorExtraction ==
    /\ \A k \in 1..Len(history) : history[k] \notin {"server.Run", "cli.Run"}
    /\ tag = "none"
    /\ open = NoneOpen

OneModeOf(f) ==
    /\ history = <<ModeOf(f)>>
    /\ f.help => result = <<>> /\ NeitherServerNorExtraction
    /\ ~f.help /\ f.showVersion => result = VersionText /\ NeitherServerNorExtraction
    /\ ModeOf(f) # "cli.Run" => tag = "none" /\ ~consulted

C30_HelpThenUndefinedFlag ==
    /\ Done("main")
    /\ argv = <<<<"--help">>, <<"--bogus">>>>
    /\ Parse(argv).help
    /\ history = <<"parse error", "flag.Usage">>

============================================================================
